---- MODULE Spec2Model ----
(***************************************************************************)
(* Retrieval and ranking core of the customer-support RAG pipeline:        *)
(* SmartRetrieval.search over the candidates that                          *)
(* EmbeddingManager.similarity_search fetches from the vector store.       *)
(*                                                                         *)
(* Text is a sequence of one-character strings, so that lower(), split()   *)
(* and substring tests are computed as Python computes them.  Scores are   *)
(* exact rationals written as integers in units of 1/Scale.                *)
(***************************************************************************)
EXTENDS Integers, Sequences, FiniteSets, TLC

VARIABLES
    pc,              \* position of the search call
    query,           \* search(query, ...)
    version,         \* search(..., version, ...)
    k,               \* search(..., k)
    attempt,         \* similarity_search: loop variable of the retry loop
    retry_delay,     \* similarity_search: delay of the next sleep, seconds
    attempts,        \* vector-store queries issued by this call
    sleeps,          \* delays slept by this call, in order
    okAt,            \* number of the attempt that succeeded, 0 if none
    fetched,         \* the list the vector store returned
    initial_results, \* search: initial_results after filter, boost and scoring
    search_results,  \* search: SearchResult records in scoring order
    result,          \* the list search returned
    outcome,         \* "none" while running, then "returned" or "raised"
    rdoc,            \* _calculate_recency_score: the document scored
    rscore,          \* _calculate_recency_score: its outcome
    sdoc,            \* _calculate_keyword_score, _calculate_doc_priority: document
    squery,          \* _calculate_keyword_score: query
    skeyword,        \* _calculate_keyword_score: the score returned
    spriority,       \* _calculate_doc_priority: the score returned
    heap,            \* the Document objects a store keeps in memory
    watch,           \* the arguments and candidates of the calls compared
    first,           \* what the first call with them ended with
    again,           \* what the latest later call with them ended with
    merge_in,        \* merge_overlapping_regions: the list passed
    merge_out,       \* merge_overlapping_regions: the list returned
    mcalled,         \* merge_overlapping_regions has returned
    split_in,        \* split_documents: the list passed
    done,            \* split_documents: documents of the loop finished
    preserve_regions, \* split_documents: preserve_regions of the last document
    chunks,          \* split_documents: chunks of the last document
    split_docs,      \* split_documents: split_docs
    spc,             \* position of the split_documents call
    filtered_documents, \* add_documents: filtered_documents
    batch_start,     \* add_documents: loop variable i of the batch loop
    add_attempt,     \* add_documents: loop variable attempt
    add_delay,       \* add_documents: retry_delay, seconds
    store,           \* the documents in the vector store, in order of arrival
    submitted,       \* the calls of vector_store.add_documents so far
    apc              \* position of the add_documents call

vars == <<pc, query, version, k, attempt, retry_delay, attempts, sleeps, okAt,
          fetched, initial_results, search_results, result, outcome,
          rdoc, rscore, sdoc, squery, skeyword, spriority,
          heap, watch, first, again, merge_in, merge_out, mcalled,
          split_in, done, preserve_regions, chunks, split_docs, spc,
          filtered_documents, batch_start, add_attempt, add_delay, store,
          submitted, apc>>

searchVars == <<pc, query, version, k, attempt, retry_delay, attempts, sleeps,
                okAt, fetched, initial_results, search_results, result, outcome>>

recencyVars == <<rdoc, rscore>>

scoringVars == <<sdoc, squery, skeyword, spriority>>

sessionVars == <<heap, watch, first, again>>

mergeVars == <<merge_in, merge_out, mcalled>>

splitVars == <<split_in, done, preserve_regions, chunks, split_docs, spc>>

chunkerVars == <<mergeVars, splitVars>>

ingestVars == <<filtered_documents, batch_start, add_attempt, add_delay, store,
                submitted, apc>>

rankingVars == <<searchVars, recencyVars, scoringVars, sessionVars>>

\* what a call of search, of _calculate_recency_score, of the two scoring
\* functions, of merge_overlapping_regions, of split_documents leaves alone
besideSearch == <<recencyVars, scoringVars, sessionVars, chunkerVars, ingestVars>>
besideRecency == <<searchVars, scoringVars, sessionVars, chunkerVars, ingestVars>>
besideScoring == <<searchVars, recencyVars, sessionVars, chunkerVars, ingestVars>>
besideSession == <<searchVars, recencyVars, scoringVars, chunkerVars, ingestVars>>
besideMerge == <<rankingVars, splitVars, ingestVars>>
besideSplit == <<rankingVars, mergeVars, ingestVars>>
besideIngest == <<rankingVars, chunkerVars>>

----------------------------------------------------------------------------
(* Bounds of the model *)

\* longest candidate list the vector store returns
MaxCand == 3
\* longest candidate list of a store that returns its own Document objects
MaxShared == 2
\* largest k passed to search
MaxK == 2
\* clock resolution: ticks per day
TicksPerDay == 2
\* oldest document age explored by the recency specification, in days
MaxAgeDays == 370
\* greatest end offset of the regions passed to merge_overlapping_regions
MaxEnd == 4
\* longest list of regions passed to merge_overlapping_regions
MaxRegions == 3
\* IntelligentSplitter(chunk_size, chunk_overlap): the arguments explored
chunk_size == 6
chunk_overlap == 2
\* longest list of documents passed to split_documents
MaxDocs == 2
\* longest list of documents passed to add_documents
MaxAdd == 11

----------------------------------------------------------------------------
(* Text *)

UpperCase == <<"A","B","C","D","E","F","G","H","I","J","K","L","M",
               "N","O","P","Q","R","S","T","U","V","W","X","Y","Z">>
LowerCase == <<"a","b","c","d","e","f","g","h","i","j","k","l","m",
               "n","o","p","q","r","s","t","u","v","w","x","y","z">>
Digits == {"0","1","2","3","4","5","6","7","8","9"}
Whitespace == {" ", "\t", "\n"}

Range(s) == {s[i] : i \in DOMAIN s}

UpperSet == Range(UpperCase)
WordChars == Range(UpperCase) \cup Range(LowerCase) \cup Digits \cup {"_"}

LowerOf == [c \in UpperSet |-> LowerCase[CHOOSE i \in DOMAIN UpperCase : UpperCase[i] = c]]

\* str.lower() of one character
LowerChar(c) == IF c \in UpperSet THEN LowerOf[c] ELSE c

\* str.lower()
Lower(s) == [i \in DOMAIN s |-> LowerChar(s[i])]

\* regex \w
IsWordChar(c) == c \in WordChars

\* p occurs in s starting at position i (1-based)
OccursAt(p, s, i) ==
    /\ i >= 1
    /\ i + Len(p) - 1 <= Len(s)
    /\ \A j \in 1..Len(p) : s[i + j - 1] = p[j]

\* Python's  p in s
IsSubstr(p, s) == \E i \in 1..(Len(s) + 1) : OccursAt(p, s, i)

\* regex \b between s[i-1] and s[i]
WordBoundary(s, i) ==
    LET before == i - 1 >= 1 /\ i - 1 <= Len(s) /\ IsWordChar(s[i - 1])
        after  == i >= 1 /\ i <= Len(s) /\ IsWordChar(s[i])
    IN before # after

\* str.split(): maximal runs of non-whitespace, in order
RECURSIVE SplitFrom(_, _, _, _)
SplitFrom(s, i, cur, acc) ==
    IF i > Len(s)
    THEN IF cur = <<>> THEN acc ELSE Append(acc, cur)
    ELSE IF s[i] \in Whitespace
         THEN SplitFrom(s, i + 1, <<>>, IF cur = <<>> THEN acc ELSE Append(acc, cur))
         ELSE SplitFrom(s, i + 1, Append(cur, s[i]), acc)

Split(s) == SplitFrom(s, 1, <<>>, <<>>)

\* str.split(sep) for a one-character separator: every field, empty ones too
RECURSIVE SplitOnFrom(_, _, _, _, _)
SplitOnFrom(s, sep, i, cur, acc) ==
    IF i > Len(s)
    THEN Append(acc, cur)
    ELSE IF s[i] = sep
         THEN SplitOnFrom(s, sep, i + 1, <<>>, Append(acc, cur))
         ELSE SplitOnFrom(s, sep, i + 1, Append(cur, s[i]), acc)

SplitOn(s, sep) == SplitOnFrom(s, sep, 1, <<>>, <<>>)

\* ' '.join(words)
RECURSIVE JoinSpace(_)
JoinSpace(words) ==
    IF words = <<>> THEN <<>>
    ELSE IF Len(words) = 1 THEN words[1]
    ELSE words[1] \o <<" ">> \o JoinSpace(Tail(words))

Min(a, b) == IF a <= b THEN a ELSE b
Max(a, b) == IF a >= b THEN a ELSE b

----------------------------------------------------------------------------
(* config/retrieval_config.py *)

DOC_TYPE_PRIORITIES ==
    [product_doc |-> 3, resolved_ticket |-> 2, pending_ticket |-> 1]

Authentication == <<"a","u","t","h","e","n","t","i","c","a","t","i","o","n">>
Synchronization == <<"s","y","n","c","h","r","o","n","i","z","a","t","i","o","n">>
Error == <<"e","r","r","o","r">>

Categories == {Authentication, Synchronization, Error}

\* Each regular expression is given by the shortest strings it matches: an
\* optional suffix never changes whether re.search finds a match, and a
\* character class [- ]? is spelled out.
QUERY_PATTERNS(category) ==
    IF category = Authentication THEN
        { <<"l","o","g","i","n">>,
          <<"s","i","g","n","i","n">>, <<"s","i","g","n","-","i","n">>,
          <<"s","i","g","n"," ","i","n">>,
          <<"a","u","t","h">>,
          <<"c","r","e","d","e","n","t","i","a","l">> }
    ELSE IF category = Synchronization THEN
        { <<"s","y","n","c">>,
          <<"d","a","t","a","-","s","y","n","c">>, <<"d","a","t","a"," ","s","y","n","c">>,
          <<"f","i","l","e","-","s","y","n","c">>, <<"f","i","l","e"," ","s","y","n","c">> }
    ELSE
        { <<"e","r","r","o","r">>,
          <<"i","s","s","u","e">>,
          <<"p","r","o","b","l","e","m">>,
          <<"f","a","i","l">> }

NEGATION_PATTERNS ==
    { <<"n","o","t">>, <<"n","'","t">>, <<"c","a","n","n","o","t">>,
      <<"c","a","n","'","t">>, <<"w","o","n","'","t">>, <<"i","s","n","'","t">>,
      <<"d","o","e","s","n","'","t">>, <<"d","i","d","n","'","t">>,
      <<"n","e","v","e","r">>, <<"n","o">> }

\* RECENCY_SETTINGS, in days
RECENCY_MAX_AGE == 365
RECENCY_RECENT_THRESHOLD == 30

\* RELEVANCE_WEIGHTS, in tenths
RELEVANCE_WEIGHTS ==
    [semantic_score |-> 4, keyword_score |-> 3, doc_priority |-> 2, recency |-> 1]

\* KEYWORD_SETTINGS
MIN_NGRAM == 1
MAX_NGRAM == 3

RERANK_TOP_K == 20
FINAL_RESULTS_K == 5

\* 1.0 in score units; every quotient taken below is exact in these units
Scale == 100 * 60 * 335

----------------------------------------------------------------------------
(* Documents *)

\* Python's None, for string-valued metadata and for the version argument
None == "<None>"

\* A date string of the metadata: kind "iso" parses to the instant t (ticks),
\* kind "bad" is a non-empty string datetime.fromisoformat rejects, kind
\* "empty" is '', kind "none" is None or a missing key.
Iso(t) == [kind |-> "iso", t |-> t]
BadDate == [kind |-> "bad", t |-> 0]
EmptyDate == [kind |-> "empty", t |-> 0]
NoDate == [kind |-> "none", t |-> 0]

\* datetime.now() during the call, in ticks
Now == (MaxAgeDays + 30) * TicksPerDay

DaysAgo(d) == Iso(Now - d * TicksPerDay)

\* dict.get(key, default)
MetaGet(md, key, default) == IF key \in DOMAIN md THEN md[key] ELSE default

\* dict.pop(key, default): the dict without the key
MetaWithout(md, key) == [x \in (DOMAIN md) \ {key} |-> md[x]]

\* truth value of a string or None
Truthy(v) == v # None /\ v # ""

\* truth value of a date string or None
TruthyDate(d) == d.kind \notin {"none", "empty"}

DocProduct ==
    [page_content |-> <<"S","y","n","c"," ","f","a","i","l">>,
     metadata |-> [source |-> "product_doc", version |-> "2.0",
                   last_updated |-> DaysAgo(1)]]

DocTicketAll ==
    [page_content |-> <<"a","u","t","h"," ","s","y","n","c"," ","f","a","i","l">>,
     metadata |-> [source |-> "support_ticket",
                   status |-> <<"R","e","s","o","l","v","e","d">>,
                   category |-> Authentication \o <<",">> \o Synchronization
                                \o <<",">> \o Error,
                   user_version |-> "2.0",
                   created_date |-> DaysAgo(400),
                   resolved_date |-> DaysAgo(2)]]

DocTicketPending ==
    [page_content |-> <<"n","o"," ","d","a","t","a">>,
     metadata |-> [source |-> "support_ticket",
                   status |-> <<"o","p","e","n">>,
                   category |-> Authentication,
                   version |-> "",
                   user_version |-> "2.0",
                   created_date |-> DaysAgo(180),
                   resolved_date |-> EmptyDate]]

DocBadDate ==
    [page_content |-> <<"d","a","t","a">>,
     metadata |-> [source |-> "product_doc", version |-> "1.5",
                   user_version |-> "2.0",
                   last_updated |-> BadDate]]

DocOther ==
    [page_content |-> <<"s","y","n","c">>,
     metadata |-> [source |-> "faq"]]

\* the documents held by the vector store
Corpus == {DocProduct, DocTicketAll, DocTicketPending, DocBadDate, DocOther}

Queries ==
    { <<"A","u","t","h"," ","S","y","n","c"," ","F","A","I","L">>,
      <<"n","o"," ","s","y","n","c"," ","f","a","i","l">>,
      <<"d","a","t","a">>,
      <<"n","o","t"," ","d","a","t","a">>,
      <<>> }

Versions == {None, "2.0", "3.0"}

\* the values of k: small ones that cut the list, and the default
KValues == (0..MaxK) \cup {FINAL_RESULTS_K}

\* lists of at most n documents of the corpus, equal documents allowed
SeqsUpTo(S, n) == UNION {[1..m -> S] : m \in 0..n}

CandidateLists == SeqsUpTo(Corpus, Min(MaxCand, RERANK_TOP_K))

\* texts of the documents
CorpusTexts == {d.page_content : d \in Corpus}

\* queries and document texts for the keyword score on its own: no word,
\* one to five words, a repeated word, upper case, runs of blanks
ScoringQueries ==
    { <<>>, <<" "," ">>, <<"a">>, <<"a"," ","b">>,
      <<"A"," ","b"," ","a">>, <<"a"," "," ","b">>,
      <<"a"," ","b"," ","a"," ","b"," ","c">> }

ScoringTexts ==
    { <<>>, <<"a"," ","b">>, <<"A"," ","B"," ","C"," ","D">>, <<"b"," ","a">>,
      <<"a","b">>, <<"a"," "," ","b">>, <<"x"," ","a"," ","b"," ","a">> }

\* metadata for the doc-priority score on its own: the sources the loader
\* writes, another one and none; the status in several spellings and none
ScoringStatuses ==
    { <<"r","e","s","o","l","v","e","d">>,
      <<"R","e","s","o","l","v","e","d">>,
      <<"R","E","S","O","L","V","E","D">>,
      <<"o","p","e","n">>,
      <<"r","e","s","o","l","v","e","d"," ">>,
      <<>> }

ScoringMetadata ==
    {[source |-> "product_doc"], [source |-> "support_ticket"],
     [source |-> "faq"], [title |-> "t"]}
    \cup {[source |-> src, status |-> st] :
             src \in {"product_doc", "support_ticket", "faq"},
             st \in ScoringStatuses}

ScoringDocs ==
    {[page_content |-> text, metadata |-> md] :
        text \in ScoringTexts, md \in ScoringMetadata}

----------------------------------------------------------------------------
(* SmartRetrieval: the scoring functions *)

\* re.search(pattern, query, re.IGNORECASE) for a pattern of QUERY_PATTERNS
SearchIgnoreCase(literal, q) == IsSubstr(literal, Lower(q))

_classify_query(q) ==
    {c \in Categories : \E p \in QUERY_PATTERNS(c) : SearchIgnoreCase(p, q)}

\* re.search(r'\b' + pattern + r'\b', query, re.IGNORECASE)
SearchWord(p, q) ==
    LET lowered == Lower(q)
    IN \E i \in 1..(Len(q) + 1) :
        /\ OccursAt(p, lowered, i)
        /\ WordBoundary(q, i)
        /\ WordBoundary(q, i + Len(p))

_has_negation(q) == \E p \in NEGATION_PATTERNS : SearchWord(p, q)

\* The functions of the query alone, tabulated over the queries of the model
\* (a constant table is evaluated once).
ClassifiedAs == [q \in Queries |-> _classify_query(q)]
NegationIn == [q \in Queries |-> _has_negation(q)]

\* the n-gram list of the query, in generation order
NGrams(q) ==
    LET terms == Split(Lower(q))
        OfLen(n) == [i \in 1..Max(0, Len(terms) - n + 1) |->
                        JoinSpace(SubSeq(terms, i, i + n - 1))]
        RECURSIVE From(_)
        From(n) == IF n > MAX_NGRAM THEN <<>> ELSE OfLen(n) \o From(n + 1)
    IN From(MIN_NGRAM)

\* faulty variant: an n-gram that occurs twice in the query is counted once
KeywordScore_DistinctNGrams(q, page_content) ==
    LET ngrams == Range(NGrams(q))
        doc_text == Lower(page_content)
        matches == Cardinality({g \in ngrams : IsSubstr(g, doc_text)})
        total_ngrams == Cardinality(ngrams)
    IN IF total_ngrams > 0 THEN (matches * Scale) \div total_ngrams ELSE 0

\* the keyword score of a query against a document text
KeywordScore(q, page_content) ==
    LET ngrams == NGrams(q)
        doc_text == Lower(page_content)
        matches == Cardinality({i \in DOMAIN ngrams : IsSubstr(ngrams[i], doc_text)})
        total_ngrams == Len(ngrams)
    IN IF total_ngrams > 0 THEN (matches * Scale) \div total_ngrams ELSE 0

\* KeywordScore tabulated over the queries and document texts of the model
KeywordScoreOf ==
    [q \in Queries \cup ScoringQueries |->
        [text \in CorpusTexts \cup ScoringTexts |-> KeywordScore(q, text)]]

_calculate_keyword_score(q, doc) == KeywordScoreOf[q][doc.page_content]

MaxPriority ==
    CHOOSE m \in {DOC_TYPE_PRIORITIES[t] : t \in DOMAIN DOC_TYPE_PRIORITIES} :
        \A t \in DOMAIN DOC_TYPE_PRIORITIES : DOC_TYPE_PRIORITIES[t] <= m

\* faulty variant: the priority is not divided by the largest priority
_calculate_doc_priority_Unnormalised(doc) ==
    LET source == MetaGet(doc.metadata, "source", "")
        status == Lower(MetaGet(doc.metadata, "status", <<>>))
        doc_type == IF source = "support_ticket"
                    THEN IF status = <<"r","e","s","o","l","v","e","d">>
                         THEN "resolved_ticket" ELSE "pending_ticket"
                    ELSE source
    IN MetaGet(DOC_TYPE_PRIORITIES, doc_type, 0) * Scale

\* faulty variant: the status is compared without lower()
_calculate_doc_priority_CaseSensitive(doc) ==
    LET source == MetaGet(doc.metadata, "source", "")
        status == MetaGet(doc.metadata, "status", <<>>)
        doc_type == IF source = "support_ticket"
                    THEN IF status = <<"r","e","s","o","l","v","e","d">>
                         THEN "resolved_ticket" ELSE "pending_ticket"
                    ELSE source
        priority == MetaGet(DOC_TYPE_PRIORITIES, doc_type, 0)
    IN (priority * Scale) \div MaxPriority

_calculate_doc_priority(doc) ==
    LET source == MetaGet(doc.metadata, "source", "")
        status == Lower(MetaGet(doc.metadata, "status", <<>>))
        doc_type == IF source = "support_ticket"
                    THEN IF status = <<"r","e","s","o","l","v","e","d">>
                         THEN "resolved_ticket" ELSE "pending_ticket"
                    ELSE source
        priority == MetaGet(DOC_TYPE_PRIORITIES, doc_type, 0)
    IN (priority * Scale) \div MaxPriority

\* the date field _calculate_recency_score reads
DateField(doc) ==
    IF MetaGet(doc.metadata, "source", "") = "support_ticket"
    THEN LET resolved == MetaGet(doc.metadata, "resolved_date", NoDate)
         IN IF TruthyDate(resolved) THEN resolved
            ELSE MetaGet(doc.metadata, "created_date", NoDate)
    ELSE MetaGet(doc.metadata, "last_updated", NoDate)

\* floor division, as timedelta.days
FloorDiv(a, b) == IF a >= 0 THEN a \div b ELSE -((-a + b - 1) \div b)

\* faulty variant: the interpolation uses the whole age, not the age beyond the
\* recent threshold
_calculate_recency_score_WholeAge(doc, now) ==
    LET date_field == DateField(doc)
        age == now - date_field.t
        recent == RECENCY_RECENT_THRESHOLD * TicksPerDay
        max_age == RECENCY_MAX_AGE * TicksPerDay
        age_range == FloorDiv(max_age - recent, TicksPerDay)
        doc_age == FloorDiv(age, TicksPerDay)
    IN IF ~TruthyDate(date_field) THEN [raised |-> FALSE, score |-> 0]
       ELSE IF date_field.kind = "bad" THEN [raised |-> TRUE, score |-> 0]
       ELSE IF age <= recent THEN [raised |-> FALSE, score |-> Scale]
       ELSE IF age >= max_age THEN [raised |-> FALSE, score |-> 0]
       ELSE [raised |-> FALSE, score |-> Scale - (doc_age * Scale) \div age_range]

\* [raised |-> TRUE] when datetime.fromisoformat raises ValueError
_calculate_recency_score(doc, now) ==
    LET date_field == DateField(doc)
        age == now - date_field.t
        recent == RECENCY_RECENT_THRESHOLD * TicksPerDay
        max_age == RECENCY_MAX_AGE * TicksPerDay
        age_range == FloorDiv(max_age - recent, TicksPerDay)
        doc_age == FloorDiv(age - recent, TicksPerDay)
    IN IF ~TruthyDate(date_field) THEN [raised |-> FALSE, score |-> 0]
       ELSE IF date_field.kind = "bad" THEN [raised |-> TRUE, score |-> 0]
       ELSE IF age <= recent THEN [raised |-> FALSE, score |-> Scale]
       ELSE IF age >= max_age THEN [raised |-> FALSE, score |-> 0]
       ELSE [raised |-> FALSE, score |-> Scale - (doc_age * Scale) \div age_range]

\* faulty variant: the recency score is added without its weight
_calculate_final_score_UnweightedRecency(r) ==
    ( r.semantic_score * RELEVANCE_WEIGHTS.semantic_score
    + r.keyword_score * RELEVANCE_WEIGHTS.keyword_score
    + r.doc_priority * RELEVANCE_WEIGHTS.doc_priority
    + r.recency_score * 10 ) \div 10

_calculate_final_score(r) ==
    ( r.semantic_score * RELEVANCE_WEIGHTS.semantic_score
    + r.keyword_score * RELEVANCE_WEIGHTS.keyword_score
    + r.doc_priority * RELEVANCE_WEIGHTS.doc_priority
    + r.recency_score * RELEVANCE_WEIGHTS.recency ) \div 10

\* faulty variant: only the 'version' key is read, 'user_version' is ignored
_filter_by_version_VersionKeyOnly(documents, v) ==
    IF ~Truthy(v) THEN documents
    ELSE LET Keep(doc) == MetaGet(doc.metadata, "version", None) = v
         IN SelectSeq(documents, Keep)

_filter_by_version(documents, v) ==
    IF ~Truthy(v) THEN documents
    ELSE LET doc_version(doc) ==
                 LET ver == MetaGet(doc.metadata, "version", None)
                 IN IF Truthy(ver) THEN ver
                    ELSE MetaGet(doc.metadata, "user_version", None)
             Keep(doc) == Truthy(doc_version(doc)) /\ doc_version(doc) = v
         IN SelectSeq(documents, Keep)

\* faulty variant: the boost is 1.2 however many categories match
_boost_similar_cases_FlatBoost(q, documents) ==
    LET query_categories == ClassifiedAs[q]
        Boosted(doc) ==
            LET doc_categories ==
                    Range(SplitOn(MetaGet(doc.metadata, "category", <<>>), ","))
                matching_categories == query_categories \cap doc_categories
            IN IF /\ MetaGet(doc.metadata, "source", None) = "support_ticket"
                  /\ matching_categories # {}
               THEN [doc EXCEPT !.metadata = ("_score_boost" :> 12) @@ @]
               ELSE doc
    IN IF query_categories = {} THEN documents
       ELSE [i \in DOMAIN documents |-> Boosted(documents[i])]

\* The boost 1 + 0.2 * len(matching_categories) is stored in tenths.
_boost_similar_cases(q, documents) ==
    LET query_categories == ClassifiedAs[q]
        Boosted(doc) ==
            LET doc_categories ==
                    Range(SplitOn(MetaGet(doc.metadata, "category", <<>>), ","))
                matching_categories == query_categories \cap doc_categories
            IN IF /\ MetaGet(doc.metadata, "source", None) = "support_ticket"
                  /\ matching_categories # {}
               THEN [doc EXCEPT !.metadata =
                        ("_score_boost" :> 10 + 2 * Cardinality(matching_categories)) @@ @]
               ELSE doc
    IN IF query_categories = {} THEN documents
       ELSE [i \in DOMAIN documents |-> Boosted(documents[i])]

\* list.index(doc): 0-based position of the first element equal to doc
ListIndex(docs, doc) ==
    (CHOOSE j \in DOMAIN docs :
        docs[j] = doc /\ \A l \in 1..(j - 1) : docs[l] # doc) - 1

\* The scoring loop of search, from the i-th document on.  docs holds the
\* documents with their metadata as the iterations so far left it; pos is
\* the position of the document in initial_results.
RECURSIVE ScoreFrom(_, _, _, _, _)
ScoreFrom(q, has_negation, docs, i, acc) ==
    IF i > Len(docs)
    THEN [docs |-> docs, results |-> acc, raised |-> FALSE]
    ELSE
      LET doc == docs[i]
          semantic == Scale - (ListIndex(docs, doc) * Scale) \div Len(docs)
          keyword == _calculate_keyword_score(q, doc)
          doc_priority == _calculate_doc_priority(doc)
          recency == _calculate_recency_score(doc, Now)
          semantic_score == IF has_negation THEN Scale - semantic ELSE semantic
          keyword_score == IF has_negation THEN Scale - keyword ELSE keyword
          boost == MetaGet(doc.metadata, "_score_boost", 10)
          popped == [doc EXCEPT !.metadata = MetaWithout(@, "_score_boost")]
          scored == [pos |-> i,
                     semantic_score |-> (semantic_score * boost) \div 10,
                     keyword_score |-> (keyword_score * boost) \div 10,
                     doc_priority |-> doc_priority,
                     recency_score |-> recency.score,
                     final_score |-> 0]
          r == [scored EXCEPT !.final_score = _calculate_final_score(scored)]
      IN IF recency.raised
         THEN [docs |-> docs, results |-> acc, raised |-> TRUE]
         ELSE ScoreFrom(q, has_negation, [docs EXCEPT ![i] = popped], i + 1,
                        Append(acc, r))

\* faulty variant: an element is put ahead of the earlier elements with an equal key
InsertByScore_Unstable(front, x) ==
    LET ahead == Cardinality({i \in DOMAIN front :
                                 front[i].final_score > x.final_score})
    IN SubSeq(front, 1, ahead) \o <<x>> \o SubSeq(front, ahead + 1, Len(front))

\* Where a stable descending sort puts x among the sorted elements that came
\* before it in the list: behind every element whose key is not smaller.
InsertByScore(front, x) ==
    LET ahead == Cardinality({i \in DOMAIN front :
                                 front[i].final_score >= x.final_score})
    IN SubSeq(front, 1, ahead) \o <<x>> \o SubSeq(front, ahead + 1, Len(front))

\* list.sort(key=final_score, reverse=True): descending and stable
RECURSIVE SortByFinalScore(_)
SortByFinalScore(rs) ==
    IF rs = <<>> THEN <<>>
    ELSE InsertByScore(SortByFinalScore(SubSeq(rs, 1, Len(rs) - 1)), rs[Len(rs)])

\* s[:n]
SlicePrefix(s, n) ==
    IF n >= 0 THEN SubSeq(s, 1, Min(n, Len(s)))
    ELSE SubSeq(s, 1, Max(0, Len(s) + n))

\* the documents search returns: the first kk of the sorted results
TopK(docs, top) ==
    [i \in DOMAIN top |->
        [document |-> docs[top[i].pos],
         pos |-> top[i].pos,
         final_score |-> top[i].final_score]]

\* search after the scoring loop: sort, cut, return (or the loop raised)
SortAndCut(loop, kk) ==
    [initial_results |-> loop.docs,
     search_results |-> loop.results,
     raised |-> loop.raised,
     result |-> IF loop.raised THEN <<>>
                ELSE TopK(loop.docs, SlicePrefix(SortByFinalScore(loop.results), kk))]

\* search from the boost step on: boost, score each document, sort, cut
RankFiltered(q, kk, filtered) ==
    SortAndCut(ScoreFrom(q, NegationIn[q], _boost_similar_cases(q, filtered),
                         1, <<>>), kk)

\* faulty variant: the rank normaliser 1 / len(initial_results) is taken before the
\* loop, which divides by zero on an empty list
RankCandidates_NormaliseFirst(q, v, kk, candidates) ==
    IF _filter_by_version(candidates, v) = <<>>
    THEN [initial_results |-> <<>>, search_results |-> <<>>, raised |-> TRUE,
          result |-> <<>>]
    ELSE RankFiltered(q, kk, _filter_by_version(candidates, v))

\* what search does with the list similarity_search returned
RankCandidates(q, v, kk, candidates) ==
    RankFiltered(q, kk, _filter_by_version(candidates, v))

----------------------------------------------------------------------------
(* Regular expressions of utils/text_processing.py, matched as Python's   *)
(* backtracking matcher matches them: Ends lists the offsets at which a   *)
(* match starting at offset i can end, the preferred one first.           *)

Chr(c) == [kind |-> "set", set |-> {c}]
\* \d
Digit == [kind |-> "set", set |-> Digits]
\* \s
Space == [kind |-> "set", set |-> Whitespace]
\* [A-Z]
Upper == [kind |-> "set", set |-> UpperSet]
\* .  without DOTALL
Dot == [kind |-> "dot"]
\* ^  under (?m)
Bol == [kind |-> "bol"]
Cat(items) == [kind |-> "cat", items |-> items]
Alt(items) == [kind |-> "alt", items |-> items]
\* r*
Star(r) == [kind |-> "star", of |-> r]
\* r*?
Lazy(r) == [kind |-> "lazy", of |-> r]
\* r+
Plus(r) == Cat(<<r, Star(r)>>)
\* r?
Opt(r) == Alt(<<r, Cat(<<>>)>>)
\* a literal word
Word(w) == Cat([i \in DOMAIN w |-> Chr(w[i])])

\* the offsets of a list, each kept at its first place
RECURSIVE FirstPlaces(_, _)
FirstPlaces(ends, seen) ==
    IF ends = <<>> THEN <<>>
    ELSE IF Head(ends) \in seen
         THEN FirstPlaces(Tail(ends), seen)
         ELSE <<Head(ends)>> \o FirstPlaces(Tail(ends), seen \cup {Head(ends)})

\* the offsets after i of a list
Advancing(ends, i) == SelectSeq(ends, LAMBDA e : e > i)

\* re matches one character, and c is such a character
OneChar(re) == re.kind \in {"set", "dot"}
Takes(re, c) == IF re.kind = "set" THEN c \in re.set ELSE c # "\n"

\* the offset at which the run of characters that re takes, from offset i, ends
RunEnd(re, s, i) ==
    CHOOSE j \in i..Len(s) :
        /\ \A m \in (i + 1)..j : Takes(re, s[m])
        /\ j < Len(s) => ~Takes(re, s[j + 1])

RECURSIVE Ends(_, _, _), EndsFrom(_, _, _), EndsCat(_, _, _, _), EndsAlt(_, _, _, _)
Ends(re, s, i) ==
    CASE OneChar(re) ->
           IF i < Len(s) /\ Takes(re, s[i + 1]) THEN <<i + 1>> ELSE <<>>
      [] re.kind = "bol" ->
           IF i = 0 \/ s[i] = "\n" THEN <<i>> ELSE <<>>
      [] re.kind = "cat" -> EndsCat(re.items, 1, s, <<i>>)
      [] re.kind = "alt" -> FirstPlaces(EndsAlt(re.items, 1, s, i), {})
      [] re.kind = "star" /\ OneChar(re.of) ->
           \* the longest run first, then each shorter one
           [n \in 1..(RunEnd(re.of, s, i) - i + 1) |-> RunEnd(re.of, s, i) - n + 1]
      [] re.kind = "lazy" /\ OneChar(re.of) ->
           \* the empty run first, then each longer one
           [n \in 1..(RunEnd(re.of, s, i) - i + 1) |-> i + n - 1]
      [] re.kind = "star" /\ ~OneChar(re.of) ->
           FirstPlaces(EndsFrom(re, s, Advancing(Ends(re.of, s, i), i)) \o <<i>>, {})
      [] re.kind = "lazy" /\ ~OneChar(re.of) ->
           FirstPlaces(<<i>> \o EndsFrom(re, s, Advancing(Ends(re.of, s, i), i)), {})

\* the ends of the matches of re that start at one of starts, in their order
EndsFrom(re, s, starts) ==
    IF starts = <<>> THEN <<>>
    ELSE FirstPlaces(Ends(re, s, Head(starts)) \o EndsFrom(re, s, Tail(starts)), {})

EndsCat(items, n, s, starts) ==
    IF n > Len(items) THEN starts
    ELSE EndsCat(items, n + 1, s, EndsFrom(items[n], s, starts))

EndsAlt(items, n, s, i) ==
    IF n > Len(items) THEN <<>>
    ELSE Ends(items[n], s, i) \o EndsAlt(items, n + 1, s, i)

\* after a match [pos, end) the scan goes on at end
NextScan(pos, ends) == IF ends[1] > pos THEN ends[1] ELSE pos + 1

\* re.finditer(re, s): the matches from left to right, none overlapping
RECURSIVE finditer_from(_, _, _)
finditer_from(re, s, pos) ==
    IF pos > Len(s) THEN <<>>
    ELSE IF Ends(re, s, pos) = <<>>
         THEN finditer_from(re, s, pos + 1)
         ELSE <<[start |-> pos, end |-> Ends(re, s, pos)[1]]>>
              \o finditer_from(re, s, NextScan(pos, Ends(re, s, pos)))

finditer(re, s) == finditer_from(re, s, 0)

----------------------------------------------------------------------------
(* utils/text_processing.py *)

\* text[a:b] for 0 <= a <= b <= len(text)
Slice(s, a, b) == SubSeq(s, a + 1, b)

\* a text whose characters remember their offset in the document
Traced(text) == [i \in DOMAIN text |-> [c |-> text[i], p |-> i - 1]]
\* the string itself
Text(ts) == [i \in DOMAIN ts |-> ts[i].c]
\* the document offsets its characters came from
Offsets(ts) == {ts[i].p : i \in DOMAIN ts}

\* str.strip()
RECURSIVE lstrip(_), rstrip(_)
lstrip(ts) ==
    IF ts # <<>> /\ Head(ts).c \in Whitespace THEN lstrip(Tail(ts)) ELSE ts
rstrip(ts) ==
    IF ts # <<>> /\ ts[Len(ts)].c \in Whitespace
    THEN rstrip(SubSeq(ts, 1, Len(ts) - 1)) ELSE ts
strip(ts) == rstrip(lstrip(ts))

\* sorted(regions, key=lambda x: x['start']): stable
RECURSIVE InsertByStart(_, _)
InsertByStart(sorted, r) ==
    IF sorted = <<>> THEN <<r>>
    ELSE IF sorted[Len(sorted)].start <= r.start
         THEN Append(sorted, r)
         ELSE Append(InsertByStart(SubSeq(sorted, 1, Len(sorted) - 1), r),
                     sorted[Len(sorted)])

RECURSIVE SortByStart(_)
SortByStart(regions) ==
    IF regions = <<>> THEN <<>>
    ELSE InsertByStart(SortByStart(SubSeq(regions, 1, Len(regions) - 1)),
                       regions[Len(regions)])

\* the three markers of numbered_patterns
numbered_patterns ==
    << Cat(<<Plus(Digit), Chr(".")>>),
       Cat(<<Plus(Digit), Chr(")")>>),
       Cat(<<Chr("("), Plus(Digit), Chr(")")>>) >>

\* fr'(?m)^(?:\s*{pattern}\s+.+\n?)+' for a pattern without alternation
Items(pattern) ==
    Cat(<<Bol, Plus(Cat(<<Star(Space), pattern, Plus(Space), Plus(Dot),
                          Opt(Chr("\n"))>>))>>)

\* the same f-string filled with the three step_patterns; the second has
\* alternation at its top level, which the group of the f-string takes over:
\* ^(?:\s*First,?|Second,?|Third,?|Finally,?\s+.+\n?)+
step_patterns ==
    << Items(Cat(<<Word(<<"S","t","e","p"," ">>), Plus(Digit),
                   [kind |-> "set", set |-> {":", ".", ")"}]>>)),
       Cat(<<Bol, Plus(Alt(<<
           Cat(<<Star(Space), Word(<<"F","i","r","s","t">>), Opt(Chr(","))>>),
           Cat(<<Word(<<"S","e","c","o","n","d">>), Opt(Chr(","))>>),
           Cat(<<Word(<<"T","h","i","r","d">>), Opt(Chr(","))>>),
           Cat(<<Word(<<"F","i","n","a","l","l","y">>), Opt(Chr(",")),
                 Plus(Space), Plus(Dot), Opt(Chr("\n"))>>) >>))>>),
       Items(Cat(<<Plus(Digit), Chr("."), Plus(Space), Upper>>)) >>

\* r'\*\*(.*?)\*\*:'
heading_pattern ==
    Cat(<<Chr("*"), Chr("*"), Lazy(Dot), Chr("*"), Chr("*"), Chr(":")>>)

\* the regions of the matches of one pattern: content = match.group()
MatchRegions(matches, text, type) ==
    [i \in DOMAIN matches |->
        [start |-> matches[i].start, end |-> matches[i].end,
         content |-> Slice(Traced(text), matches[i].start, matches[i].end),
         type |-> type]]

extract_numbered_lists(text) ==
    SortByStart(
        MatchRegions(finditer(Items(numbered_patterns[1]), text), text, "numbered_list")
        \o MatchRegions(finditer(Items(numbered_patterns[2]), text), text, "numbered_list")
        \o MatchRegions(finditer(Items(numbered_patterns[3]), text), text, "numbered_list"))

\* a section runs from its heading to the next heading, or to the end of
\* the text; its content is stripped
SectionRegions(heading_matches, text) ==
    [i \in DOMAIN heading_matches |->
        [start |-> heading_matches[i].start,
         end |-> IF i < Len(heading_matches)
                 THEN heading_matches[i + 1].start ELSE Len(text),
         content |-> strip(Slice(Traced(text), heading_matches[i].start,
                                 IF i < Len(heading_matches)
                                 THEN heading_matches[i + 1].start ELSE Len(text))),
         type |-> "section"]]

identify_section_boundaries(text) ==
    SectionRegions(finditer(heading_pattern, text), text)

find_step_sequences(text) ==
    SortByStart(
        MatchRegions(finditer(step_patterns[1], text), text, "steps")
        \o MatchRegions(finditer(step_patterns[2], text), text, "steps")
        \o MatchRegions(finditer(step_patterns[3], text), text, "steps"))

\* the last region of merged, extended by current when current ends later
Extended(previous, current) ==
    IF current.end > previous.end
    THEN [previous EXCEPT !.end = current.end,
                          !.content = previous.content \o current.content]
    ELSE previous

\* faulty variant: a region that starts where the previous one ends is kept
\* apart
Absorb_StrictOverlap(merged, current) ==
    IF current.start < merged[Len(merged)].end
    THEN [merged EXCEPT ![Len(merged)] = Extended(@, current)]
    ELSE Append(merged, current)

\* one iteration of the loop of merge_overlapping_regions
Absorb(merged, current) ==
    IF current.start <= merged[Len(merged)].end
    THEN [merged EXCEPT ![Len(merged)] = Extended(@, current)]
    ELSE Append(merged, current)

RECURSIVE MergeFrom(_, _, _)
MergeFrom(sorted_regions, n, merged) ==
    IF n > Len(sorted_regions) THEN merged
    ELSE MergeFrom(sorted_regions, n + 1, Absorb(merged, sorted_regions[n]))

MergeSorted(sorted_regions) ==
    MergeFrom(sorted_regions, 2, <<sorted_regions[1]>>)

merge_overlapping_regions(regions) ==
    IF regions = <<>> THEN <<>> ELSE MergeSorted(SortByStart(regions))

----------------------------------------------------------------------------
(* RecursiveCharacterTextSplitter, the splitter of langchain_text_splitters *)
(* that IntelligentSplitter builds: split_text with keep_separator and      *)
(* strip_whitespace at their defaults.  A splitter is a record of its       *)
(* chunk_size, chunk_overlap and separators.                                *)

\* the offsets at which sep occurs in s, from offset i on, none overlapping
RECURSIVE Occurrences(_, _, _)
Occurrences(sep, s, i) ==
    IF i + Len(sep) > Len(s) THEN <<>>
    ELSE IF OccursAt(sep, s, i + 1)
         THEN <<i>> \o Occurrences(sep, s, i + Len(sep))
         ELSE Occurrences(sep, s, i + 1)

\* the text cut at each of the offsets, from offset a on
RECURSIVE CutAt(_, _, _)
CutAt(text, cuts, a) ==
    IF cuts = <<>> THEN <<Slice(text, a, Len(text))>>
    ELSE <<Slice(text, a, Head(cuts))>> \o CutAt(text, Tail(cuts), Head(cuts))

\* _split_text_with_regex: each separator stays at the head of the split
\* that follows it; empty splits are dropped
_split_text_with_regex(text, separator) ==
    SelectSeq(IF separator = <<>>
              THEN [i \in DOMAIN text |-> <<text[i]>>]
              ELSE CutAt(text, Occurrences(separator, Text(text), 0), 0),
              LAMBDA s : s # <<>>)

\* "".join(docs)
RECURSIVE Joined(_)
Joined(docs) == IF docs = <<>> THEN <<>> ELSE Head(docs) \o Joined(Tail(docs))

\* _join_docs: the stripped text as a list of one, or of none when it is empty
_join_docs(docs) ==
    IF strip(Joined(docs)) = <<>> THEN <<>> ELSE <<strip(Joined(docs))>>

\* total: the length of current_doc
Total(current_doc) == Len(Joined(current_doc))

\* the while loop of _merge_splits: splits leave the head of current_doc
\* until the overlap is kept and a split of length len fits
RECURSIVE Shed(_, _, _)
Shed(current_doc, len, splitter) ==
    IF \/ Total(current_doc) > splitter.chunk_overlap
       \/ /\ Total(current_doc) + len > splitter.chunk_size
          /\ Total(current_doc) > 0
    THEN Shed(Tail(current_doc), len, splitter)
    ELSE current_doc

\* _merge_splits from split n on, with the separator ""
RECURSIVE MergeSplitsFrom(_, _, _, _, _)
MergeSplitsFrom(splits, n, docs, current_doc, splitter) ==
    IF n > Len(splits) THEN docs \o _join_docs(current_doc)
    ELSE IF Total(current_doc) + Len(splits[n]) > splitter.chunk_size
              /\ current_doc # <<>>
         THEN MergeSplitsFrom(splits, n + 1, docs \o _join_docs(current_doc),
                  Append(Shed(current_doc, Len(splits[n]), splitter), splits[n]),
                  splitter)
         ELSE MergeSplitsFrom(splits, n + 1, docs, Append(current_doc, splits[n]),
                  splitter)

_merge_splits(splits, splitter) ==
    IF splits = <<>> THEN <<>>
    ELSE MergeSplitsFrom(splits, 1, <<>>, <<>>, splitter)

\* the place in separators of the first that is "" or occurs in the text
SeparatorPlace(text, separators) ==
    IF \E i \in DOMAIN separators :
          separators[i] = <<>> \/ IsSubstr(separators[i], Text(text))
    THEN CHOOSE i \in DOMAIN separators :
          /\ separators[i] = <<>> \/ IsSubstr(separators[i], Text(text))
          /\ \A j \in 1..(i - 1) :
                separators[j] # <<>> /\ ~IsSubstr(separators[j], Text(text))
    ELSE Len(separators)

\* new_separators: those after the chosen one, none after ""
NewSeparators(separators, place) ==
    IF separators[place] = <<>> THEN <<>>
    ELSE SubSeq(separators, place + 1, Len(separators))

RECURSIVE _split_text(_, _, _), SplitLoop(_, _, _, _, _, _)
\* the loop of _split_text over splits, from split n on
SplitLoop(splits, n, _good_splits, final_chunks, new_separators, splitter) ==
    IF n > Len(splits)
    THEN final_chunks \o _merge_splits(_good_splits, splitter)
    ELSE IF Len(splits[n]) < splitter.chunk_size
         THEN SplitLoop(splits, n + 1, Append(_good_splits, splits[n]),
                        final_chunks, new_separators, splitter)
         ELSE SplitLoop(splits, n + 1, <<>>,
                        final_chunks \o _merge_splits(_good_splits, splitter)
                            \o (IF new_separators = <<>> THEN <<splits[n]>>
                                ELSE _split_text(splits[n], new_separators, splitter)),
                        new_separators, splitter)

_split_text(text, separators, splitter) ==
    SplitLoop(_split_text_with_regex(text,
                  separators[SeparatorPlace(text, separators)]),
              1, <<>>, <<>>,
              NewSeparators(separators, SeparatorPlace(text, separators)),
              splitter)

split_text(splitter, text) == _split_text(text, splitter.separators, splitter)

----------------------------------------------------------------------------
(* data_processing/intelligent_splitter.py *)

\* self.base_splitter
base_splitter ==
    [chunk_size |-> chunk_size, chunk_overlap |-> chunk_overlap,
     separators |-> << <<"\n", "\n">>, <<"\n">>, <<".", " ">>, <<" ">>, <<>> >>]

\* temp_splitter, with the separators RecursiveCharacterTextSplitter has by
\* default
temp_splitter ==
    [chunk_size |-> chunk_size * 2, chunk_overlap |-> chunk_overlap * 2,
     separators |-> << <<"\n", "\n">>, <<"\n">>, <<" ">>, <<>> >>]

_identify_preserve_regions(text) ==
    merge_overlapping_regions(extract_numbered_lists(text)
                              \o identify_section_boundaries(text)
                              \o find_step_sequences(text))

\* the chunks a call of chunks.extend or chunks.append adds, each with the
\* region it was made for (0 for text outside the regions) and the splitter
\* that made it ("none" for a region kept whole)
Made(pieces, region, by) ==
    [i \in DOMAIN pieces |-> [content |-> pieces[i], region |-> region, by |-> by]]

\* faulty variant: the text outside the regions is appended as it is
Outside_Untrimmed(text, last_end, to) ==
    IF last_end < to
    THEN Made(<<Slice(Traced(text), last_end, to)>>, 0, "base")
    ELSE <<>>

\* faulty variant: the text outside the regions is taken one offset late
Outside_OneLate(text, last_end, to) ==
    IF last_end < to /\ strip(Slice(Traced(text), last_end, to)) # <<>>
    THEN Made(split_text(base_splitter, Slice(Traced(text), last_end + 1, to)), 0, "base")
    ELSE <<>>

\* lines 50-53 and 70-73: the text between last_end and an offset
Outside(text, last_end, to) ==
    IF last_end < to /\ strip(Slice(Traced(text), last_end, to)) # <<>>
    THEN Made(split_text(base_splitter, Slice(Traced(text), last_end, to)), 0, "base")
    ELSE <<>>

\* faulty variant: a region is kept whole up to chunk_size only
Preserved_SingleSize(region, n) ==
    IF Len(region.content) > chunk_size
    THEN Made(split_text(temp_splitter, region.content), n, "temp")
    ELSE Made(<<region.content>>, n, "none")

\* lines 56-65: the preserved region, which is the n-th
Preserved(region, n) ==
    IF Len(region.content) > chunk_size * 2
    THEN Made(split_text(temp_splitter, region.content), n, "temp")
    ELSE Made(<<region.content>>, n, "none")

\* the loop of _split_with_preserved_regions from region n on
RECURSIVE WalkFrom(_, _, _, _, _)
WalkFrom(text, regions, n, walked, last_end) ==
    IF n > Len(regions)
    THEN walked \o Outside(text, last_end, Len(text))
    ELSE WalkFrom(text, regions, n + 1,
                  walked \o Outside(text, last_end, regions[n].start)
                         \o Preserved(regions[n], n),
                  regions[n].end)

_split_with_preserved_regions(text, regions) == WalkFrom(text, regions, 1, <<>>, 0)

\* faulty variant: chunk_id counts from one
ChunkMetadata_FromOne(metadata, i, n) ==
    [key \in DOMAIN metadata \cup {"chunk_id", "total_chunks"} |->
        IF key = "chunk_id" THEN i + 1
        ELSE IF key = "total_chunks" THEN n
        ELSE metadata[key]]

\* {**doc.metadata, 'chunk_id': i, 'total_chunks': n}
ChunkMetadata(metadata, i, n) ==
    [key \in DOMAIN metadata \cup {"chunk_id", "total_chunks"} |->
        IF key = "chunk_id" THEN i
        ELSE IF key = "total_chunks" THEN n
        ELSE metadata[key]]

\* lines 91-101: the Documents of the chunks of doc, which is the parent-th
\* of the call
ChunkDocuments(doc, parent, made) ==
    [i \in DOMAIN made |->
        [page_content |-> Text(made[i].content),
         metadata |-> ChunkMetadata(doc.metadata, i - 1, Len(made)),
         parent |-> parent]]

----------------------------------------------------------------------------
(* EmbeddingManager.similarity_search and SmartRetrieval.search *)

MAX_RETRIES == 3
INITIAL_RETRY_DELAY == 5

NoDoc == [page_content |-> <<>>, metadata |-> [source |-> ""]]

\* no score returned yet
NotScored == -1

\* no search call is under way
SearchIdle ==
    /\ pc = "idle"
    /\ query = <<>>
    /\ version = None
    /\ k = 0
    /\ attempt = 0
    /\ retry_delay = INITIAL_RETRY_DELAY
    /\ attempts = 0
    /\ sleeps = <<>>
    /\ okAt = 0
    /\ fetched = <<>>
    /\ initial_results = <<>>
    /\ search_results = <<>>
    /\ result = <<>>
    /\ outcome = "none"

\* no call of _calculate_recency_score on its own is under way
RecencyIdle ==
    /\ rdoc = NoDoc
    /\ rscore = [called |-> FALSE, raised |-> FALSE, score |-> 0]

\* no call of the scoring functions on their own is under way
ScoringIdle ==
    /\ sdoc = NoDoc
    /\ squery = <<>>
    /\ skeyword = NotScored
    /\ spriority = NotScored

\* the Document objects of a store that keeps them in memory, each named by
\* the document it was built from
SharedObjects == {DocTicketAll, DocBadDate, DocOther}

NoInput == [query |-> <<>>, version |-> None, k |-> 0, ids |-> <<0>>]
NoCall == [called |-> FALSE, raised |-> FALSE, result |-> <<>>]

\* no sequence of calls on shared Document objects is under way
SessionIdle ==
    /\ heap = [o \in SharedObjects |-> o]
    /\ watch = NoInput
    /\ first = NoCall
    /\ again = NoCall

\* no call of merge_overlapping_regions on its own is under way
MergeIdle ==
    /\ merge_in = <<>>
    /\ merge_out = <<>>
    /\ mcalled = FALSE

\* no call of split_documents is under way
SplitIdle ==
    /\ split_in = <<>>
    /\ done = 0
    /\ preserve_regions = <<>>
    /\ chunks = <<>>
    /\ split_docs = <<>>
    /\ spc = "idle"

ChunkerIdle == MergeIdle /\ SplitIdle

\* no call of add_documents is under way
IngestIdle ==
    /\ filtered_documents = <<>>
    /\ batch_start = 0
    /\ add_attempt = 0
    /\ add_delay = 0
    /\ store = <<>>
    /\ submitted = <<>>
    /\ apc = "idle"

RankingIdle == SearchIdle /\ RecencyIdle /\ ScoringIdle /\ SessionIdle

Init ==
    /\ pc = "idle"
    /\ query = <<>>
    /\ version = None
    /\ k = 0
    /\ attempt = 0
    /\ retry_delay = INITIAL_RETRY_DELAY
    /\ attempts = 0
    /\ sleeps = <<>>
    /\ okAt = 0
    /\ fetched = <<>>
    /\ initial_results = <<>>
    /\ search_results = <<>>
    /\ result = <<>>
    /\ outcome = "none"
    /\ rdoc = NoDoc
    /\ rscore = [called |-> FALSE, raised |-> FALSE, score |-> 0]
    /\ ScoringIdle
    /\ SessionIdle
    /\ ChunkerIdle
    /\ IngestIdle

\* search(q, v, kk) is called and enters similarity_search
StartSearch(q, v, kk) ==
    /\ pc = "idle"
    /\ pc' = "fetch"
    /\ query' = q
    /\ version' = v
    /\ k' = kk
    /\ attempt' = 0
    /\ retry_delay' = INITIAL_RETRY_DELAY
    /\ attempts' = 0
    /\ sleeps' = <<>>
    /\ okAt' = 0
    /\ fetched' = <<>>
    /\ initial_results' = <<>>
    /\ search_results' = <<>>
    /\ result' = <<>>
    /\ outcome' = "none"
    /\ UNCHANGED besideSearch

\* faulty variant: the delay is not doubled
FetchRetry_NoBackoff ==
    /\ pc = "fetch"
    /\ attempt < MAX_RETRIES - 1
    /\ attempts' = attempts + 1
    /\ sleeps' = Append(sleeps, retry_delay)
    /\ retry_delay' = retry_delay
    /\ attempt' = attempt + 1
    /\ UNCHANGED <<pc, query, version, k, okAt, fetched, initial_results,
                   search_results, result, outcome>>
    /\ UNCHANGED besideSearch

\* the vector-store query fails and is retried after a sleep
FetchRetry ==
    /\ pc = "fetch"
    /\ attempt < MAX_RETRIES - 1
    /\ attempts' = attempts + 1
    /\ sleeps' = Append(sleeps, retry_delay)
    /\ retry_delay' = retry_delay * 2
    /\ attempt' = attempt + 1
    /\ UNCHANGED <<pc, query, version, k, okAt, fetched, initial_results,
                   search_results, result, outcome>>
    /\ UNCHANGED besideSearch

\* the vector-store query fails on the last attempt: the exception leaves
\* similarity_search and search
FetchRaise ==
    /\ pc = "fetch"
    /\ ~(attempt < MAX_RETRIES - 1)
    /\ attempts' = attempts + 1
    /\ outcome' = "raised"
    /\ pc' = "done"
    /\ UNCHANGED <<query, version, k, attempt, retry_delay, sleeps, okAt, fetched,
                   initial_results, search_results, result>>
    /\ UNCHANGED besideSearch

\* search ends with r: it returns r.result, or the exception of the scoring
\* loop leaves it
SearchEnds(r) ==
    /\ initial_results' = r.initial_results
    /\ search_results' = r.search_results
    /\ result' = r.result
    /\ outcome' = IF r.raised THEN "raised" ELSE "returned"

\* the vector-store query returns the candidates: similarity_search returns
\* them and search filters, boosts, scores, sorts and returns, or raises
FetchReturn(candidates) ==
    /\ pc = "fetch"
    /\ attempt < MAX_RETRIES
    /\ attempts' = attempts + 1
    /\ okAt' = attempts + 1
    /\ fetched' = candidates
    /\ SearchEnds(RankCandidates(query, version, k, candidates))
    /\ pc' = "done"
    /\ UNCHANGED <<query, version, k, attempt, retry_delay, sleeps>>
    /\ UNCHANGED besideSearch

\* the caller has the outcome; the next request may come
Finish ==
    /\ pc = "done"
    /\ pc' = "idle"
    /\ query' = <<>>
    /\ version' = None
    /\ k' = 0
    /\ attempt' = 0
    /\ retry_delay' = INITIAL_RETRY_DELAY
    /\ attempts' = 0
    /\ sleeps' = <<>>
    /\ okAt' = 0
    /\ fetched' = <<>>
    /\ initial_results' = <<>>
    /\ search_results' = <<>>
    /\ result' = <<>>
    /\ outcome' = "none"
    /\ UNCHANGED besideSearch

Next ==
    \/ \E q \in Queries, v \in Versions, kk \in KValues : StartSearch(q, v, kk)
    \/ FetchRetry
    \/ FetchRaise
    \/ \E candidates \in CandidateLists : FetchReturn(candidates)
    \/ Finish

Spec == Init /\ [][Next]_vars

----------------------------------------------------------------------------
(* _calculate_recency_score on its own, over a range of document dates *)

\* ages explored, in ticks; negative ages are dates in the future
AgeTicks == (0 - TicksPerDay)..(MaxAgeDays * TicksPerDay)

DateValues == {Iso(Now - a) : a \in AgeTicks} \cup {BadDate, EmptyDate}

RecencyDocs ==
    {[page_content |-> <<>>, metadata |-> [source |-> "product_doc"]]}
    \cup {[page_content |-> <<>>,
           metadata |-> [source |-> "product_doc", last_updated |-> d]] :
             d \in DateValues}
    \cup {[page_content |-> <<>>, metadata |-> [source |-> "support_ticket"]]}
    \cup {[page_content |-> <<>>,
           metadata |-> [source |-> "support_ticket", created_date |-> d]] :
             d \in DateValues}
    \cup {[page_content |-> <<>>,
           metadata |-> [source |-> "support_ticket", resolved_date |-> d,
                         created_date |-> DaysAgo(RECENCY_MAX_AGE)]] :
             d \in DateValues}

InitRecency ==
    /\ pc = "idle"
    /\ query = <<>>
    /\ version = None
    /\ k = 0
    /\ attempt = 0
    /\ retry_delay = INITIAL_RETRY_DELAY
    /\ attempts = 0
    /\ sleeps = <<>>
    /\ okAt = 0
    /\ fetched = <<>>
    /\ initial_results = <<>>
    /\ search_results = <<>>
    /\ result = <<>>
    /\ outcome = "none"
    /\ rdoc \in RecencyDocs
    /\ rscore = [called |-> FALSE, raised |-> FALSE, score |-> 0]
    /\ ScoringIdle
    /\ SessionIdle
    /\ ChunkerIdle
    /\ IngestIdle

\* _calculate_recency_score(rdoc) runs
ScoreRecency ==
    /\ ~rscore.called
    /\ LET r == _calculate_recency_score(rdoc, Now)
       IN rscore' = [called |-> TRUE, raised |-> r.raised, score |-> r.score]
    /\ UNCHANGED rdoc
    /\ UNCHANGED besideRecency

NextRecency == ScoreRecency

SpecRecency == InitRecency /\ [][NextRecency]_vars

----------------------------------------------------------------------------
(* _calculate_keyword_score and _calculate_doc_priority on their own *)

InitScoring ==
    /\ SearchIdle
    /\ RecencyIdle
    /\ sdoc \in ScoringDocs
    /\ squery \in ScoringQueries
    /\ skeyword = NotScored
    /\ spriority = NotScored
    /\ SessionIdle
    /\ ChunkerIdle
    /\ IngestIdle

\* _calculate_keyword_score(squery, sdoc) runs
ScoreKeyword ==
    /\ skeyword = NotScored
    /\ skeyword' = _calculate_keyword_score(squery, sdoc)
    /\ UNCHANGED <<sdoc, squery, spriority>>
    /\ UNCHANGED besideScoring

\* _calculate_doc_priority(sdoc) runs
ScorePriority ==
    /\ spriority = NotScored
    /\ spriority' = _calculate_doc_priority(sdoc)
    /\ UNCHANGED <<sdoc, squery, skeyword>>
    /\ UNCHANGED besideScoring

NextScoring == ScoreKeyword \/ ScorePriority

SpecScoring == InitScoring /\ [][NextScoring]_vars

----------------------------------------------------------------------------
(* Calls of search against a store that keeps its Document objects in      *)
(* memory and returns the same objects on every call.  The store answers   *)
(* at the first attempt; the retries are in Spec.                          *)

\* the lists of distinct objects such a store returns
SharedLists ==
    {ids \in SeqsUpTo(SharedObjects, MaxShared) :
        \A i \in DOMAIN ids : \A j \in DOMAIN ids : i # j => ids[i] # ids[j]}

SessionInputs ==
    [query : Queries, version : Versions, k : {FINAL_RESULTS_K}, ids : SharedLists]

\* the candidate list: the objects as they are now, each with its name
Fetched(ids) ==
    [i \in DOMAIN ids |->
        [page_content |-> heap[ids[i]].page_content,
         metadata |-> heap[ids[i]].metadata,
         obj |-> ids[i]]]

\* the objects after the call: those search worked on are as it left them
HeapAfter(r) ==
    [o \in SharedObjects |->
        IF \E i \in DOMAIN r.initial_results : r.initial_results[i].obj = o
        THEN LET i == CHOOSE i \in DOMAIN r.initial_results :
                          r.initial_results[i].obj = o
             IN [page_content |-> r.initial_results[i].page_content,
                 metadata |-> r.initial_results[i].metadata]
        ELSE heap[o]]

\* what the caller gets: the objects returned, in order, with their scores
Ended(r) ==
    [called |-> TRUE,
     raised |-> r.raised,
     result |-> [i \in DOMAIN r.result |->
                    [obj |-> r.result[i].document.obj,
                     final_score |-> r.result[i].final_score]]]

\* search ends with r on the objects of input in
SessionEnds(in, r) ==
    /\ heap' = HeapAfter(r)
    /\ first' = IF in = watch /\ ~first.called THEN Ended(r) ELSE first
    /\ again' = IF in = watch /\ first.called THEN Ended(r) ELSE again
    /\ UNCHANGED watch

InitSession ==
    /\ SearchIdle
    /\ RecencyIdle
    /\ ScoringIdle
    /\ ChunkerIdle
    /\ IngestIdle
    /\ heap = [o \in SharedObjects |-> o]
    /\ watch \in SessionInputs
    /\ first = NoCall
    /\ again = NoCall

\* one call of search: search(in.query, in.version, in.k) while the store
\* returns the objects in.ids
SessionSearch(in) ==
    /\ SessionEnds(in, RankCandidates(in.query, in.version, in.k, Fetched(in.ids)))
    /\ UNCHANGED besideSession

NextSession == \E in \in SessionInputs : SessionSearch(in)

SpecSession == InitSession /\ [][NextSession]_vars

----------------------------------------------------------------------------
(* merge_overlapping_regions on its own, on any list of regions *)

\* a text of MaxEnd characters for the regions to lie in
SpanText == [i \in 1..MaxEnd |-> "x"]

\* the region text[a:b] of that text
SpanRegion(a, b) ==
    [start |-> a, end |-> b, content |-> Slice(Traced(SpanText), a, b),
     type |-> "numbered_list"]

\* any span that is not empty
Spans == UNION {{SpanRegion(a, b) : b \in (a + 1)..MaxEnd} : a \in 0..(MaxEnd - 1)}

InitMerge ==
    /\ RankingIdle
    /\ IngestIdle
    /\ SplitIdle
    /\ merge_in \in SeqsUpTo(Spans, MaxRegions)
    /\ merge_out = <<>>
    /\ mcalled = FALSE

MergeCall ==
    /\ ~mcalled
    /\ merge_out' = merge_overlapping_regions(merge_in)
    /\ mcalled' = TRUE
    /\ UNCHANGED <<merge_in, besideMerge>>

NextMerge == MergeCall

SpecMerge == InitMerge /\ [][NextMerge]_vars

----------------------------------------------------------------------------
(* IntelligentSplitter.split_documents on the documents of the loader *)

\* the page contents split, which the detectors tell apart
SplitTexts ==
    { <<>>, \* no text
      <<" ","\n">>, \* whitespace only
      <<"a","b"," ","c","d"," ","e"," ","f"," ","g","h">>, \* no region, and longer than chunk_size
      <<"1","."," ","a","\n">>, \* one numbered list that is the whole document
      <<"x","\n","1","."," ","A"," ","b","\n","y">>, \* text before and after a list that is also a step sequence
      <<"1","."," ","a","b","\n","2","."," ","c","d","\n","3","."," ","e","f","\n">>, \* a list longer than twice chunk_size
      <<"*","*","T","*","*",":"," ","a","\n","*","*","U","*","*",":"," ","b"," ">>, \* two sections, the second ending in a blank
      <<"1","."," ","A","\n","b">>, \* a list within a step sequence that starts with it
      <<"1","."," ","a","\n"," ","\n","*","*","T","*","*",":"," ","b">>, \* a blank line between a list and a section
      <<"F","i","r","s","t",","," ","g","o">> } \* a step word at the start of a line

\* metadata as the loader writes it, in short
SplitMetadata ==
    {[source |-> "product_doc", id |-> "doc_1", version |-> "2.0"],
     [source |-> "support_ticket", id |-> "ticket_1"]}

SplitDocs == {[page_content |-> text, metadata |-> md] :
                 text \in SplitTexts, md \in SplitMetadata}

InitSplit ==
    /\ RankingIdle
    /\ IngestIdle
    /\ MergeIdle
    /\ split_in \in SeqsUpTo(SplitDocs, MaxDocs)
    /\ done = 0
    /\ preserve_regions = <<>>
    /\ chunks = <<>>
    /\ split_docs = <<>>
    /\ spc = "loop"

\* lines 88-101: the chunks of doc, which is the parent-th, and their Documents
SplitInto(doc, parent, regions, made) ==
    /\ preserve_regions' = regions
    /\ chunks' = made
    /\ split_docs' = split_docs \o ChunkDocuments(doc, parent, made)
    /\ done' = parent

\* lines 85-88: the regions of doc and the walk over them
SplitAround(doc, parent, regions) ==
    SplitInto(doc, parent, regions,
              _split_with_preserved_regions(doc.page_content, regions))

\* one iteration of the loop of split_documents
SplitDocument ==
    /\ spc = "loop"
    /\ done < Len(split_in)
    /\ SplitAround(split_in[done + 1], done + 1,
                   _identify_preserve_regions(split_in[done + 1].page_content))
    /\ UNCHANGED <<split_in, spc, besideSplit>>

\* return split_docs
SplitReturn ==
    /\ spc = "loop"
    /\ done = Len(split_in)
    /\ spc' = "returned"
    /\ UNCHANGED <<split_in, done, preserve_regions, chunks, split_docs, besideSplit>>

NextSplit == SplitDocument \/ SplitReturn

SpecSplit == InitSplit /\ [][NextSplit]_vars

----------------------------------------------------------------------------
(* EmbeddingManager.add_documents *)

batch_size == 5
max_retries == 3
\* retry_delay = 5, at the head of every batch
first_retry_delay == 5

\* ','.join(str(v) for v in value)
RECURSIVE JoinComma(_)
JoinComma(values) ==
    IF values = <<>> THEN <<>>
    ELSE IF Len(values) = 1 THEN values[1]
    ELSE values[1] \o <<",">> \o JoinComma(Tail(values))

\* the metadata keys whose values the loader writes as lists
ListKeys == {"tags"}

\* lines 74-79: list values become comma-separated strings
FilteredMetadata(metadata) ==
    [key \in DOMAIN metadata |->
        IF key \in ListKeys THEN JoinComma(metadata[key]) ELSE metadata[key]]

\* the j-th document passed: a chunk of the splitter with the loader's tags
IngestDoc(j) ==
    [page_content |-> <<"d">>,
     metadata |-> [source |-> "product_doc", id |-> j, chunk_id |-> 0,
                   tags |-> << <<"a">>, <<"b">> >>]]

\* lines 72-87
Filtered(docs) ==
    [j \in DOMAIN docs |->
        [page_content |-> docs[j].page_content,
         metadata |-> FilteredMetadata(docs[j].metadata)]]

\* batch = filtered_documents[i:i + batch_size]
Batch ==
    SubSeq(filtered_documents, batch_start + 1,
           Min(batch_start + batch_size, Len(filtered_documents)))

\* one call of self.vector_store.add_documents(batch), as the log keeps it
Call(ok, slept) ==
    [first |-> batch_start, batch |-> Batch, attempt |-> add_attempt,
     ok |-> ok, slept |-> slept]

InitIngest ==
    /\ RankingIdle
    /\ ChunkerIdle
    /\ \E n \in 0..MaxAdd :
          filtered_documents = Filtered([j \in 1..n |-> IngestDoc(j)])
    /\ batch_start = 0
    /\ add_attempt = 0
    /\ add_delay = first_retry_delay
    /\ store = <<>>
    /\ submitted = <<>>
    /\ apc = "loop"

\* faulty variant: the delay is carried over to the next batch
AddSucceed_KeepDelay ==
    /\ apc = "loop"
    /\ batch_start < Len(filtered_documents)
    /\ store' = store \o Batch
    /\ submitted' = Append(submitted, Call(TRUE, 0))
    /\ batch_start' = batch_start + batch_size
    /\ add_attempt' = 0
    /\ UNCHANGED <<add_delay, filtered_documents, apc, besideIngest>>

\* the store takes the batch: break, and the next batch starts
AddSucceed ==
    /\ apc = "loop"
    /\ batch_start < Len(filtered_documents)
    /\ store' = store \o Batch
    /\ submitted' = Append(submitted, Call(TRUE, 0))
    /\ batch_start' = batch_start + batch_size
    /\ add_attempt' = 0
    /\ add_delay' = first_retry_delay
    /\ UNCHANGED <<filtered_documents, apc, besideIngest>>

\* the store raises before the last attempt, having kept the first kept
\* documents of the batch: sleep, double the delay, try again
AddRetry(kept) ==
    /\ apc = "loop"
    /\ batch_start < Len(filtered_documents)
    /\ add_attempt < max_retries - 1
    /\ store' = store \o SubSeq(Batch, 1, kept)
    /\ submitted' = Append(submitted, Call(FALSE, add_delay))
    /\ add_delay' = add_delay * 2
    /\ add_attempt' = add_attempt + 1
    /\ UNCHANGED <<filtered_documents, batch_start, apc, besideIngest>>

\* the store raises at the last attempt: raise
AddRaise(kept) ==
    /\ apc = "loop"
    /\ batch_start < Len(filtered_documents)
    /\ add_attempt = max_retries - 1
    /\ store' = store \o SubSeq(Batch, 1, kept)
    /\ submitted' = Append(submitted, Call(FALSE, 0))
    /\ apc' = "raised"
    /\ UNCHANGED <<filtered_documents, batch_start, add_attempt, add_delay,
                   besideIngest>>

\* the batch loop is over
AddReturn ==
    /\ apc = "loop"
    /\ batch_start >= Len(filtered_documents)
    /\ apc' = "returned"
    /\ UNCHANGED <<filtered_documents, batch_start, add_attempt, add_delay,
                   store, submitted, besideIngest>>

\* a call of the store that raises may have kept none of the batch or some
\* first documents of it
NextIngest ==
    \/ AddSucceed
    \/ \E kept \in 0..(Len(Batch) - 1) : AddRetry(kept)
    \/ \E kept \in 0..(Len(Batch) - 1) : AddRaise(kept)
    \/ AddReturn

SpecIngest == InitIngest /\ [][NextIngest]_vars

----------------------------------------------------------------------------
(* Properties of search *)

\* the call has ended and similarity_search had returned a list
Ranked == pc = "done" /\ okAt > 0

\* the call has ended by returning a list
Returned == pc = "done" /\ outcome = "returned"

\* the effective version of a candidate: version, else user_version
EffectiveVersion(doc) ==
    IF "version" \in DOMAIN doc.metadata /\ doc.metadata.version # ""
    THEN doc.metadata.version
    ELSE IF "user_version" \in DOMAIN doc.metadata
         THEN doc.metadata.user_version
         ELSE None

NoCandidateHasVersion ==
    \A i \in DOMAIN fetched : EffectiveVersion(fetched[i]) # version

\* C1: when a version is requested, the index returned candidates and none of
\* them has the requested effective version, a search that returns (k >= 1)
\* returns a non-empty list, the top-k of the unfiltered candidates.
C1_VersionFallback ==
    (/\ Returned
     /\ version # None
     /\ k >= 1
     /\ fetched # <<>>
     /\ NoCandidateHasVersion)
    => /\ result # <<>>
       /\ result = RankCandidates(query, None, k, fetched).result

\* C2: whenever the index returns no candidates, search returns the empty
\* list and raises nothing.
C2_EmptyCandidates ==
    (Ranked /\ fetched = <<>>) => (outcome = "returned" /\ result = <<>>)

C2_Witness ==
    /\ Ranked
    /\ fetched = <<>>
    /\ outcome = "returned"
    /\ result = <<>>
    /\ version # None
    /\ k >= 1
    /\ query # <<>>

\* the place of candidate c in the order by final score descending, equal
\* scores in candidate order
PlaceOf(c) ==
    1 + Cardinality({d \in DOMAIN search_results :
          \/ search_results[d].final_score > search_results[c].final_score
          \/ /\ search_results[d].final_score = search_results[c].final_score
             /\ d < c})

\* C3: the returned list is the first min(k, n) of the n scored candidates in
\* the order by final score descending, ties in candidate order; its scores
\* never increase and its length exceeds neither k nor n.
C3_SortAndTruncate ==
    Returned =>
        /\ Len(result) = Min(k, Len(search_results))
        /\ Len(result) <= k
        /\ Len(result) <= Len(search_results)
        /\ \A i \in DOMAIN result :
              /\ result[i].pos \in DOMAIN search_results
              /\ PlaceOf(result[i].pos) = i
              /\ result[i].final_score = search_results[result[i].pos].final_score
              /\ result[i].document = initial_results[result[i].pos]
        /\ \A i \in DOMAIN result : \A j \in DOMAIN result :
              i < j => result[i].final_score >= result[j].final_score

\* a returned list that was cut and holds two candidates of equal score
C3_Witness ==
    /\ Returned
    /\ Len(result) = k
    /\ k < Len(search_results)
    /\ \E i \in DOMAIN result : \E j \in DOMAIN result :
          /\ i < j
          /\ result[i].final_score = result[j].final_score
          /\ result[i].pos < result[j].pos

\* C4: at most 3 vector-store queries per call; nothing is queried after the
\* first success; each failure but the last is followed by a sleep, of 5 and
\* then 10 seconds; after 3 failures the call has raised and returned no list.
C4_BoundedRetry ==
    LET failures == IF okAt > 0 THEN attempts - 1 ELSE attempts
    IN /\ attempts <= 3
       /\ okAt > 0 => attempts = okAt
       /\ Len(sleeps) = Min(failures, 2)
       /\ \A i \in DOMAIN sleeps : sleeps[i] = <<5, 10>>[i]
       /\ \A i \in DOMAIN sleeps : \A j \in DOMAIN sleeps :
             i < j => sleeps[i] < sleeps[j]
       /\ (okAt = 0 /\ attempts = 3) => (pc = "done" /\ outcome = "raised" /\ result = <<>>)
       /\ (pc = "done" /\ okAt = 0) => attempts = 3
       /\ (pc = "fetch") => okAt = 0

\* all three attempts failed and the call raised
C4_Witness ==
    /\ pc = "done"
    /\ okAt = 0
    /\ attempts = 3
    /\ sleeps = <<5, 10>>
    /\ outcome = "raised"

\* the list search scores: the candidates kept by the version filter
Kept == _filter_by_version(fetched, version)

\* the candidate's relevant date field is present and cannot be parsed
HasMalformedDate(doc) ==
    IF MetaGet(doc.metadata, "source", "") = "support_ticket"
    THEN LET resolved == MetaGet(doc.metadata, "resolved_date", NoDate)
             created == MetaGet(doc.metadata, "created_date", NoDate)
         IN \/ resolved.kind = "bad"
            \/ resolved.kind \in {"none", "empty"} /\ created.kind = "bad"
    ELSE MetaGet(doc.metadata, "last_updated", NoDate).kind = "bad"

\* C5: when a scored candidate has a malformed date, search still returns:
\* every scored candidate is ranked and the malformed one has recency 0.0.
C5_MalformedDateRecovery ==
    (Ranked /\ \E i \in DOMAIN Kept : HasMalformedDate(Kept[i]))
    => /\ outcome = "returned"
       /\ Len(search_results) = Len(Kept)
       /\ \A i \in DOMAIN search_results :
             HasMalformedDate(Kept[i]) => search_results[i].recency_score = 0
       /\ Len(result) = Min(k, Len(Kept))

\* a document's metadata without the transient boost key
Plain(doc) == [doc EXCEPT !.metadata = MetaWithout(@, "_score_boost")]

\* the candidates whose effective version is the requested one, in order
MatchingVersion ==
    LET Matches(doc) == EffectiveVersion(doc) = version
    IN SelectSeq(fetched, Matches)

\* C6: with a version, the list search goes on with holds exactly the
\* candidates of that effective version, in their order (a candidate with no
\* version is left out, nothing is raised for it); with no version it is the
\* candidate list unchanged.
C6_VersionFilter ==
    Ranked =>
        /\ Len(initial_results) =
              (IF version = None THEN Len(fetched) ELSE Len(MatchingVersion))
        /\ \A i \in DOMAIN initial_results :
              Plain(initial_results[i]) =
                 (IF version = None THEN fetched[i] ELSE MatchingVersion[i])
        /\ (\A i \in DOMAIN initial_results : ~HasMalformedDate(initial_results[i]))
              => outcome = "returned"

\* a filtered call that dropped a candidate with no version and one with
\* another version, and kept one by 'version' and one by 'user_version'
C6_Witness ==
    /\ Returned
    /\ version = "2.0"
    /\ \E i \in DOMAIN fetched : EffectiveVersion(fetched[i]) = None
    /\ \E i \in DOMAIN initial_results :
          MetaGet(initial_results[i].metadata, "version", None) = "2.0"
    /\ \E i \in DOMAIN initial_results :
          /\ MetaGet(initial_results[i].metadata, "version", None) # "2.0"
          /\ MetaGet(initial_results[i].metadata, "user_version", None) = "2.0"
    /\ Len(initial_results) < Len(fetched)

\* the query "not data" and the same query without the negation marker
NegatedQuery == <<"n","o","t"," ","d","a","t","a">>
PlainQuery == <<"d","a","t","a">>

IsHighest(scores, c) == \A d \in DOMAIN scores : scores[d] <= scores[c]

\* C7: for a list of at least two candidates and a query that boosts none, the
\* candidate with the highest semantic score under the plain query does not
\* have the highest one under the negated query, and under negation the
\* semantic and keyword scores are 1 minus the scores without negation.
C7_NegationInversion ==
    (Returned /\ query = NegatedQuery /\ Len(search_results) >= 2)
    => LET plain == RankCandidates(PlainQuery, version, k, fetched).search_results
           semPlain == [c \in DOMAIN plain |-> plain[c].semantic_score]
           semNeg == [c \in DOMAIN search_results |-> search_results[c].semantic_score]
       IN /\ \A c \in DOMAIN search_results :
                /\ search_results[c].semantic_score = Scale - semPlain[c]
                /\ search_results[c].keyword_score =
                      Scale - _calculate_keyword_score(query, initial_results[c])
          /\ \A c \in DOMAIN search_results :
                IsHighest(semPlain, c) => ~IsHighest(semNeg, c)

\* the categories a ticket shares with the query
Overlap(doc) ==
    ClassifiedAs[query] \cap Range(SplitOn(MetaGet(doc.metadata, "category", <<>>), ","))

IsTicket(doc) == MetaGet(doc.metadata, "source", "") = "support_ticket"

\* the multiplier of a candidate, in tenths: 1 + 0.2 m for a ticket that
\* shares m >= 1 categories with the query, 1 otherwise
Multiplier(doc) ==
    IF IsTicket(doc) /\ Overlap(doc) # {}
    THEN 10 + 2 * Cardinality(Overlap(doc))
    ELSE 10

\* the documents as the i-th iteration of the scoring loop finds them: the
\* boost key is still on the documents from the i-th on
DuringIteration(i) ==
    [l \in DOMAIN initial_results |->
        IF l < i \/ Multiplier(initial_results[l]) = 10
        THEN initial_results[l]
        ELSE [initial_results[l] EXCEPT !.metadata =
                 ("_score_boost" :> Multiplier(initial_results[l])) @@ @]]

Inverted(score) == IF NegationIn[query] THEN Scale - score ELSE score

\* C8: the semantic and keyword score of a candidate are its scores after
\* negation inversion times its multiplier, taken once; doc-priority and
\* recency are not multiplied.
C8_BoostCorrectness ==
    Returned =>
        \A i \in DOMAIN search_results :
            LET doc == initial_results[i]
                docs == DuringIteration(i)
                semantic == Scale - (ListIndex(docs, docs[i]) * Scale) \div Len(docs)
                keyword == _calculate_keyword_score(query, doc)
            IN /\ search_results[i].semantic_score * 10 =
                     Inverted(semantic) * Multiplier(doc)
               /\ search_results[i].keyword_score * 10 =
                     Inverted(keyword) * Multiplier(doc)
               /\ search_results[i].doc_priority = _calculate_doc_priority(doc)
               /\ search_results[i].recency_score =
                     _calculate_recency_score(doc, Now).score

\* a negated query of two categories that scored a ticket sharing both, a
\* ticket sharing none and a document that is no ticket
C8_Witness ==
    /\ Returned
    /\ NegationIn[query]
    /\ Cardinality(ClassifiedAs[query]) = 2
    /\ \E i \in DOMAIN search_results :
          /\ Multiplier(initial_results[i]) = 14
          /\ search_results[i].keyword_score > Inverted(
                _calculate_keyword_score(query, initial_results[i]))
    /\ \E i \in DOMAIN search_results :
          /\ IsTicket(initial_results[i])
          /\ "category" \in DOMAIN initial_results[i].metadata
          /\ Multiplier(initial_results[i]) = 10
    /\ \E i \in DOMAIN search_results : ~IsTicket(initial_results[i])

\* C10: every returned score is at least 0 and at most 1.4.
C10_ScoreRange ==
    Returned =>
        \A i \in DOMAIN result :
            /\ result[i].final_score >= 0
            /\ result[i].final_score * 10 <= 14 * Scale

\* a returned ticket sharing all three categories scores above 1.3, and a
\* negated query returned a boosted ticket
C10_Witness ==
    /\ Returned
    /\ \E i \in DOMAIN result :
          /\ Multiplier(result[i].document) = 16
          /\ result[i].final_score * 10 > 13 * Scale

----------------------------------------------------------------------------
(* Properties of _calculate_recency_score *)

\* the age of the scored document's relevant date, in ticks
AgeOf(doc) == Now - DateField(doc).t

\* the same document with every parsed date moved back by one tick
OneTickOlder(doc) ==
    [doc EXCEPT !.metadata =
        [key \in DOMAIN @ |->
            IF key \in {"last_updated", "resolved_date", "created_date"}
               /\ @[key].kind = "iso"
            THEN Iso(@[key].t - 1)
            ELSE @[key]]]

\* C9: age <= 30 days scores 1.0, age >= 365 days scores 0.0, an age of d
\* whole days in between scores 1 - (d - 30)/335, a missing date scores 0.0;
\* the score is in [0,1] and an older document never scores more.
C9_RecencyScore ==
    (rscore.called /\ ~rscore.raised) =>
        LET date == DateField(rdoc)
            age == AgeOf(rdoc)
        IN /\ rscore.score >= 0
           /\ rscore.score <= Scale
           /\ ~TruthyDate(date) => rscore.score = 0
           /\ TruthyDate(date) =>
                /\ age <= 30 * TicksPerDay => rscore.score = Scale
                /\ age >= 365 * TicksPerDay => rscore.score = 0
                /\ \A d \in 31..364 :
                      age = d * TicksPerDay =>
                         rscore.score * 335 = Scale * (335 - (d - 30))
                /\ _calculate_recency_score(OneTickOlder(rdoc), Now).score
                      <= rscore.score

\* a document 180 days old scored 1 - 150/335
C9_Witness ==
    /\ rscore.called
    /\ ~rscore.raised
    /\ DateField(rdoc).kind = "iso"
    /\ AgeOf(rdoc) = 180 * TicksPerDay
    /\ rscore.score * 335 = Scale * 185
    /\ rscore.score > 0
    /\ rscore.score < Scale

----------------------------------------------------------------------------
(* Further properties of search *)

\* C15: when a call that had candidates ends, by returning or by raising,
\* every candidate the call worked on is as the index returned it: no key
\* was added to its metadata, none removed.
C15_NoStateAcrossCalls ==
    Ranked =>
        /\ Len(initial_results) = Len(Kept)
        /\ \A i \in DOMAIN initial_results : initial_results[i] = Kept[i]

\* C16: the candidate at 0-based position i of the n scored candidates has
\* semantic score 1 - i/n before inversion and boost, so the scores before
\* inversion strictly decrease along the list.
C16_SemanticFromRank ==
    Returned =>
        \A c \in DOMAIN search_results :
            search_results[c].semantic_score * 10 =
                Inverted(Scale - ((c - 1) * Scale) \div Len(search_results))
                    * Multiplier(initial_results[c])

----------------------------------------------------------------------------
(* Properties of _calculate_keyword_score and _calculate_doc_priority *)

\* the number of whitespace-separated words of a text: its maximal runs of
\* non-whitespace characters
WordCount(s) ==
    Cardinality({i \in DOMAIN s :
        /\ s[i] \notin Whitespace
        /\ (i = 1 \/ s[i - 1] \in Whitespace)})

\* C18: a query of w words has max(0,w) + max(0,w-1) + max(0,w-2) n-gram
\* entries, one for every run of 1, 2 or 3 consecutive words at every start;
\* the score is the number of entries that occur in the lower-cased text
\* over the number of entries, 0 when there is none, and lies in [0,1].
C18_KeywordScore ==
    skeyword # NotScored =>
        LET w == WordCount(squery)
            words == Split(Lower(squery))
            entries == {e \in (1..3) \X (1..w) : e[2] + e[1] - 1 <= w}
            text == Lower(sdoc.page_content)
            Entry(e) == JoinSpace(SubSeq(words, e[2], e[2] + e[1] - 1))
            hits == Cardinality({e \in entries : IsSubstr(Entry(e), text)})
            total == Cardinality(entries)
        IN /\ Len(words) = w
           /\ Len(NGrams(squery)) = total
           /\ total = Max(0, w) + Max(0, w - 1) + Max(0, w - 2)
           /\ \A e \in entries : \E g \in DOMAIN NGrams(squery) :
                 NGrams(squery)[g] = Entry(e)
           /\ total = 0 => skeyword = 0
           /\ total > 0 => skeyword * total = hits * Scale
           /\ skeyword >= 0
           /\ skeyword <= Scale

\* the query 'A b a' scored 4 of its 6 entries against a text with 'a' and
\* 'b a' but without 'a b'
C18_Witness ==
    /\ skeyword # NotScored
    /\ WordCount(squery) = 3
    /\ \E i \in DOMAIN squery : squery[i] \in UpperSet
    /\ NGrams(squery)[1] = NGrams(squery)[3]
    /\ skeyword * 6 = 4 * Scale

----------------------------------------------------------------------------
(* Properties of repeated calls *)

\* C14: a call of search with the query, version, k and candidate objects
\* of an earlier call ends as that call did: if both returned, they
\* returned the same documents in the same order with the same scores.
C14_RankingDeterminism ==
    (first.called /\ again.called) =>
        /\ again.raised = first.raised
        /\ again.result = first.result

----------------------------------------------------------------------------
(* Properties of merge_overlapping_regions *)

\* the offsets that the regions of a list span
Covered(rs) == UNION {rs[i].start..(rs[i].end - 1) : i \in DOMAIN rs}

\* the regions of rs that lie within the span of m
Within(m, rs) == {i \in DOMAIN rs : m.start <= rs[i].start /\ rs[i].end <= m.end}

\* C20: for any list of regions, in any order and with any overlaps, nesting
\* or adjacency, the regions merge_overlapping_regions returns are sorted by
\* start, each starts strictly after the previous one ends, they are pairwise
\* disjoint, the union of their spans is the union of the input spans, and
\* each spans from the least start to the greatest end of the inputs it
\* absorbed.
C20_MergedRegions ==
    mcalled =>
        /\ \A i \in 2..Len(merge_out) :
               /\ merge_out[i - 1].start <= merge_out[i].start
               /\ merge_out[i].start > merge_out[i - 1].end
        /\ \A i, j \in DOMAIN merge_out :
               i # j => Covered(<<merge_out[i]>>) \cap Covered(<<merge_out[j]>>) = {}
        /\ Covered(merge_out) = Covered(merge_in)
        /\ \A i \in DOMAIN merge_out :
               /\ Within(merge_out[i], merge_in) # {}
               /\ \E a \in Within(merge_out[i], merge_in) :
                      /\ merge_in[a].start = merge_out[i].start
                      /\ \A b \in Within(merge_out[i], merge_in) :
                             merge_in[b].start >= merge_in[a].start
               /\ \E a \in Within(merge_out[i], merge_in) :
                      /\ merge_in[a].end = merge_out[i].end
                      /\ \A b \in Within(merge_out[i], merge_in) :
                             merge_in[b].end <= merge_in[a].end
        /\ \A a \in DOMAIN merge_in :
               \E i \in DOMAIN merge_out : a \in Within(merge_out[i], merge_in)

\* three regions out of order, two of them adjacent, were merged into two
C20_Witness ==
    /\ mcalled
    /\ Len(merge_in) = 3
    /\ merge_in[1].start > merge_in[2].start
    /\ \E a, b \in DOMAIN merge_in : merge_in[a].end = merge_in[b].start
    /\ Len(merge_out) = 2

----------------------------------------------------------------------------
(* Properties of split_documents *)

\* the document of the last iteration, and the Document made of its i-th chunk
LastDoc == split_in[done]
Emitted(i) == split_docs[Len(split_docs) - Len(chunks) + i]

\* the chunks made for the n-th region of the last document, in order
ChunksOf(n) == SelectSeq(chunks, LAMBDA c : c.region = n)

\* a splitter with doubled chunk size and doubled overlap
Doubled ==
    [chunk_size |-> 2 * chunk_size, chunk_overlap |-> 2 * chunk_overlap,
     separators |-> << <<"\n", "\n">>, <<"\n">>, <<" ">>, <<>> >>]

\* the texts of a list of traced texts
Texts(pieces) == [i \in DOMAIN pieces |-> Text(pieces[i])]

\* C11: every merged preserve-region whose content is at most 2 x chunk_size
\* long is emitted as exactly one chunk, equal to the region's content; a
\* region with longer content is passed to a splitter with doubled chunk size
\* and doubled overlap; a document that is one preserve-region within the
\* limit yields exactly one chunk.
C11_PreservedRegionAtomic ==
    done > 0 =>
        /\ \A n \in DOMAIN preserve_regions :
              IF Len(preserve_regions[n].content) <= 2 * chunk_size
              THEN /\ Len(ChunksOf(n)) = 1
                   /\ ChunksOf(n)[1].by = "none"
                   /\ \E i \in DOMAIN chunks :
                         /\ chunks[i].region = n
                         /\ Emitted(i).page_content = Text(preserve_regions[n].content)
              ELSE /\ \A i \in DOMAIN ChunksOf(n) : ChunksOf(n)[i].by = "temp"
                   /\ Texts([i \in DOMAIN ChunksOf(n) |-> ChunksOf(n)[i].content])
                        = Texts(split_text(Doubled, preserve_regions[n].content))
        /\ ( /\ Len(preserve_regions) = 1
             /\ preserve_regions[1].start = 0
             /\ preserve_regions[1].end = Len(LastDoc.page_content)
             /\ Len(preserve_regions[1].content) <= 2 * chunk_size )
           => /\ Len(chunks) = 1
              /\ Cardinality({i \in DOMAIN split_docs : split_docs[i].parent = done}) = 1

\* a region within the limit was emitted whole between a chunk of the text
\* before it and a chunk of the text after it
C11_Witness ==
    /\ done > 0
    /\ Len(chunks) = 3
    /\ chunks[1].by = "base"
    /\ chunks[2].region = 1
    /\ chunks[2].by = "none"
    /\ Len(preserve_regions[1].content) <= 2 * chunk_size
    /\ Emitted(2).page_content = Text(preserve_regions[1].content)
    /\ chunks[3].by = "base"

\* C12: for any document and any detected preserve-regions, every character
\* of the source text that is not whitespace lies in at least one emitted
\* chunk: text before, between and after the regions is not lost, only text
\* that is whitespace alone is dropped.
C12_Coverage ==
    done > 0 =>
        /\ \A i \in DOMAIN chunks :
              /\ Emitted(i).page_content = Text(chunks[i].content)
              /\ Emitted(i).parent = done
              /\ \A j \in DOMAIN chunks[i].content :
                    chunks[i].content[j].c
                        = LastDoc.page_content[chunks[i].content[j].p + 1]
        /\ \A p \in 0..(Len(LastDoc.page_content) - 1) :
              LastDoc.page_content[p + 1] \notin Whitespace
                  => \E i \in DOMAIN chunks : p \in Offsets(chunks[i].content)

\* a document with two regions and, between them, text that is whitespace
\* alone: that text is in no chunk, every other character is
C12_Witness ==
    /\ done > 0
    /\ Len(preserve_regions) = 2
    /\ preserve_regions[1].end < preserve_regions[2].start
    /\ \E p \in preserve_regions[1].end..(preserve_regions[2].start - 1) :
          \A i \in DOMAIN chunks : p \notin Offsets(chunks[i].content)
    /\ Len(chunks) = 2

\* the places in split_docs of the chunks of the j-th document
ChunksOfParent(j) == {i \in DOMAIN split_docs : split_docs[i].parent = j}

\* C13: the n chunks of a parent carry chunk_id 0 .. n-1 in emission order
\* and total_chunks = n; each carries every metadata key of its parent with
\* the parent's value; the numbering restarts with each parent.
C13_ChunkNumbering ==
    /\ \A i \in 2..Len(split_docs) : split_docs[i - 1].parent <= split_docs[i].parent
    /\ \A i \in DOMAIN split_docs :
          /\ split_docs[i].parent \in 1..done
          /\ split_docs[i].metadata["chunk_id"]
                = Cardinality({m \in ChunksOfParent(split_docs[i].parent) : m < i})
          /\ split_docs[i].metadata["total_chunks"]
                = Cardinality(ChunksOfParent(split_docs[i].parent))
          /\ \A key \in DOMAIN split_in[split_docs[i].parent].metadata :
                /\ key \in DOMAIN split_docs[i].metadata
                /\ split_docs[i].metadata[key]
                      = split_in[split_docs[i].parent].metadata[key]

\* two parents of more than one chunk each: the numbering of the second
\* starts at 0 again
C13_Witness ==
    /\ done = 2
    /\ Cardinality(ChunksOfParent(1)) >= 2
    /\ Cardinality(ChunksOfParent(2)) >= 2
    /\ split_in[1].metadata # split_in[2].metadata
    /\ \E i \in ChunksOfParent(2) :
          /\ i - 1 \in ChunksOfParent(1)
          /\ split_docs[i].metadata["chunk_id"] = 0
          /\ split_docs[i - 1].metadata["chunk_id"] >= 1

\* the regions the three detectors find in a text, before they are merged
Detected(text) ==
    extract_numbered_lists(text) \o identify_section_boundaries(text)
        \o find_step_sequences(text)

\* the content of every region of a list is text[start:end]
VerbatimIn(rs, text) ==
    \A n \in DOMAIN rs : Text(rs[n].content) = Slice(text, rs[n].start, rs[n].end)

\* C21: every preserve-region handed to the walk, as detected and after the
\* merge of overlapping regions, has content equal to text[start:end] of the
\* document, so that the chunk of a region is a verbatim slice of the source
\* with no character repeated or missing.
C21_RegionContentIsSlice ==
    done > 0 =>
        /\ VerbatimIn(Detected(LastDoc.page_content), LastDoc.page_content)
        /\ VerbatimIn(preserve_regions, LastDoc.page_content)
        /\ \A i \in DOMAIN chunks :
              chunks[i].by = "none" =>
                  Emitted(i).page_content
                      = Slice(LastDoc.page_content,
                              preserve_regions[chunks[i].region].start,
                              preserve_regions[chunks[i].region].end)

\* the offsets from which the n-th stretch of text outside the regions runs,
\* and to which: stretch 1 lies before the first region, the last after the
\* last
GapStart(rs, n) == IF n = 1 THEN 0 ELSE rs[n - 1].end
GapEnd(rs, n, text) == IF n > Len(rs) THEN Len(text) ELSE rs[n].start

\* C22: for any document, an empty or whitespace-only one too, every chunk
\* split_documents emits has text that is not empty; a stretch of text
\* before, between or after the preserve-regions that is empty once trimmed
\* gives no chunk; a document without preserve-regions yields exactly what
\* the base splitter makes of the whole text.
C22_NoEmptyChunks ==
    /\ \A i \in DOMAIN split_docs :
          /\ split_docs[i].page_content # <<>>
          /\ \E j \in DOMAIN split_docs[i].page_content :
                split_docs[i].page_content[j] \notin Whitespace
    /\ done > 0 =>
          /\ \A n \in 1..(Len(preserve_regions) + 1) :
                (\A p \in GapStart(preserve_regions, n)
                           ..(GapEnd(preserve_regions, n, LastDoc.page_content) - 1) :
                     LastDoc.page_content[p + 1] \in Whitespace)
                => \A i \in DOMAIN chunks :
                      chunks[i].region = 0 =>
                          \A p \in Offsets(chunks[i].content) :
                              \/ p < GapStart(preserve_regions, n)
                              \/ p >= GapEnd(preserve_regions, n, LastDoc.page_content)
          /\ preserve_regions = <<>> =>
                [i \in DOMAIN chunks |-> Emitted(i).page_content]
                    = Texts(split_text(base_splitter, Traced(LastDoc.page_content)))

\* a document of whitespace alone was split, into no chunk, after a document
\* that gave chunks
C22_Witness ==
    /\ done = 2
    /\ LastDoc.page_content # <<>>
    /\ \A j \in DOMAIN LastDoc.page_content : LastDoc.page_content[j] \in Whitespace
    /\ chunks = <<>>
    /\ split_docs # <<>>

----------------------------------------------------------------------------
(* Properties of add_documents *)

\* the calls before the m-th that the store took
TakenBefore(m) == {n \in 1..(m - 1) : submitted[n].ok}

\* the calls that failed since the last one the store took before the m-th
FailedSince(m) ==
    {n \in 1..(m - 1) : ~submitted[n].ok /\ \A t \in n..(m - 1) : ~submitted[t].ok}

\* 5, 10, 20, ...: the delay after failed attempt number a, counted from 0
RECURSIVE Doubling(_)
Doubling(a) == IF a = 0 THEN 5 ELSE 2 * Doubling(a - 1)

\* C23: add_documents submits the documents in consecutive batches of at
\* most 5, in input order, each document in exactly one batch; a batch is
\* attempted at most 3 times, the delay doubling between its attempts and
\* starting at 5 seconds again for each batch; batch j+1 is first attempted
\* only after batch j succeeded; when a batch fails 3 times the call raises,
\* no later batch is attempted, and the earlier batches remain in the store.
C23_OrderedBatches ==
    /\ \A m \in DOMAIN submitted :
          \* the batch after the ones taken so far, and no other
          /\ submitted[m].first = 5 * Cardinality(TakenBefore(m))
          /\ Len(submitted[m].batch) \in 1..5
          /\ Len(submitted[m].batch)
                = Min(5, Len(filtered_documents) - submitted[m].first)
          /\ \A j \in DOMAIN submitted[m].batch :
                submitted[m].batch[j] = filtered_documents[submitted[m].first + j]
          \* at most three attempts, with delays 5 and 10 between them
          /\ submitted[m].attempt = Cardinality(FailedSince(m))
          /\ submitted[m].attempt <= 2
          /\ (~submitted[m].ok /\ submitted[m].attempt < 2)
                => submitted[m].slept = Doubling(submitted[m].attempt)
          \* the third failure is the last call, and the call raises
          /\ (~submitted[m].ok /\ submitted[m].attempt = 2)
                => (m = Len(submitted) /\ apc = "raised")
          \* what was taken stays in the store
          /\ submitted[m].ok =>
                \A j \in DOMAIN submitted[m].batch :
                    \E p \in DOMAIN store : store[p] = submitted[m].batch[j]
    /\ apc = "raised" =>
          /\ submitted # <<>>
          /\ ~submitted[Len(submitted)].ok
          /\ submitted[Len(submitted)].attempt = 2
    /\ apc = "returned" =>
          \A j \in DOMAIN filtered_documents :
              Cardinality({m \in DOMAIN submitted :
                              /\ submitted[m].ok
                              /\ submitted[m].first < j
                              /\ j <= submitted[m].first + Len(submitted[m].batch)}) = 1

\* the second batch failed three times, after delays of 5 and 10 seconds,
\* once the first batch had been taken at its second attempt
C23_Witness ==
    /\ apc = "raised"
    /\ Len(submitted) = 5
    /\ ~submitted[1].ok
    /\ submitted[2].ok
    /\ submitted[3].slept = 5
    /\ submitted[4].slept = 10
    /\ submitted[5].first = 5
    /\ Len(store) >= 5

====
